---------------------------- MODULE Spec2Model ----------------------------
(***************************************************************************)
(* A model of the DuoFern USB stick driver (custom_components/duofern):    *)
(* the 22-byte frame encoder/decoder of protocol.py, the byte-stream       *)
(* framer DuoFernSerialProtocol of stick.py, and the DuoFernStick          *)
(* connection: connect() with its initialization handshake, the ACK-gated  *)
(* send queue worker, send_command() and disconnect().                     *)
(*                                                                         *)
(* The stick runs on one asyncio event loop.  An action of this model is   *)
(* one run of a callback or of a coroutine between two suspension points   *)
(* (an await that really suspends), so it is atomic in the program too.    *)
(***************************************************************************)
EXTENDS Integers, Sequences, FiniteSets, TLC

\* ------------------------------------------------------------------------
\* Program constants (const.py)
\* ------------------------------------------------------------------------
FRAME_SIZE_BYTES == 22
INIT_RETRY_COUNT == 4

\* ------------------------------------------------------------------------
\* Bounds of the model
\* ------------------------------------------------------------------------
\* Number of paired devices the stick is constructed with.
NumPaired == 2
\* send_command() calls that are accepted over a run.
MaxSends == 2
\* connect() calls over a run.
MaxConnects == 2
\* disconnect() calls over a run.
MaxDisconnects == 2

\* ------------------------------------------------------------------------
\* Identifiers: 3 raw bytes (DuoFernId.raw)
\* ------------------------------------------------------------------------
SystemCode == <<111, 18, 52>>
DeviceList == << <<64, 0, 1>>, <<97, 0, 2>>, <<66, 0, 3>>, <<64, 0, 4>> >>
PairedDevices == SubSeq(DeviceList, 1, NumPaired)

\* ------------------------------------------------------------------------
\* Encoder (DuoFernEncoder).  A frame is a sequence of 22 bytes; Put writes
\* the byte at the 0-based offset the Python code uses.
\* ------------------------------------------------------------------------
ZeroFrame == [i \in 1..FRAME_SIZE_BYTES |-> 0]

\* What an encoder yields when a byte store raises ValueError: no frame.
ValueError == <<>>

\* frame[offset] = byte.  A bytearray takes values of range(0, 256) only and
\* raises ValueError for any other integer; the exception ends the encoder.
Put(frame, offset, byte) ==
    IF frame = ValueError \/ byte \notin 0..255 THEN ValueError
    ELSE [frame EXCEPT ![offset + 1] = byte]

PutId(frame, offset, id) ==
    Put(Put(Put(frame, offset, id[1]), offset + 1, id[2]), offset + 2, id[3])

build_init1 == Put(ZeroFrame, 0, 1)

build_init2 == Put(ZeroFrame, 0, 14)

build_set_dongle(system_code) ==
    Put(Put(PutId(Put(ZeroFrame, 0, 10), 1, system_code), 4, 0), 5, 1)

build_init3 == Put(Put(ZeroFrame, 0, 20), 1, 20)

build_set_pair(index, device_code) ==
    PutId(Put(Put(ZeroFrame, 0, 3), 1, index % 256), 2, device_code)

build_init_end == Put(Put(ZeroFrame, 0, 16), 1, 1)

build_ack == Put(ZeroFrame, 0, 129)

build_status_request_broadcast ==
    Put(PutId(Put(Put(Put(Put(ZeroFrame, 0, 13), 1, 255), 2, 15), 3, 64),
              18, <<255, 255, 255>>), 21, 1)

\* Mutant of build_status_request: the system code is written where the
\* device code belongs.
build_status_request_codes_swapped(device_code, system_code, status_type) ==
    Put(PutId(Put(Put(Put(Put(ZeroFrame, 0, 13), 1, 255), 2, status_type),
                  3, 64),
              18, system_code), 21, 1)

\* Mutant of build_status_request: the system code is written to bytes
\* 15..17, as it is in a command frame.
build_status_request_with_system_code(device_code, system_code, status_type) ==
    Put(PutId(PutId(Put(Put(Put(Put(ZeroFrame, 0, 13), 1, 255),
                            2, status_type), 3, 64),
                    15, system_code),
              18, device_code), 21, 1)

build_status_request(device_code, system_code, status_type) ==
    Put(PutId(Put(Put(Put(Put(ZeroFrame, 0, 13), 1, 255), 2, status_type),
                  3, 64),
              18, device_code), 21, 1)

\* CoverCommand
CoverUp == 1793
CoverStop == 1794
CoverDown == 1795
CoverPosition == 1799
CoverToggle == 1818
CoverCommand == {CoverUp, CoverStop, CoverDown, CoverPosition, CoverToggle}

\* position: int | None.  An absent position is None, a given one <<p>>.
None == <<>>

Max(a, b) == IF a >= b THEN a ELSE b
Min(a, b) == IF a <= b THEN a ELSE b

\* Mutant of build_cover_command: the position is stored as given.
build_cover_command_unclamped(command, device_code, system_code, position, timer, channel) ==
    LET f0 == Put(Put(ZeroFrame, 0, 13), 1, channel)
        cmd_high == (command \div 256) % 256
        cmd_low == command % 256
        f1 == Put(Put(f0, 2, cmd_high), 3, cmd_low)
        timer_byte == IF timer THEN 1 ELSE 0
        f2 == IF command \in {CoverUp, CoverDown} THEN Put(f1, 4, timer_byte)
              ELSE IF command = CoverPosition
                   THEN Put(Put(f1, 4, timer_byte), 5,
                            IF position /= None THEN position[1] ELSE 0)
                   ELSE f1
        f3 == Put(Put(Put(f2, 12, 0), 13, 0), 14, 0)
    IN  Put(PutId(PutId(f3, 15, system_code), 18, device_code), 21, 0)

\* Mutant of build_cover_command: the timer flag is written for every
\* command.
build_cover_command_timer_always(command, device_code, system_code, position, timer, channel) ==
    LET f0 == Put(Put(ZeroFrame, 0, 13), 1, channel)
        cmd_high == (command \div 256) % 256
        cmd_low == command % 256
        f1 == Put(Put(f0, 2, cmd_high), 3, cmd_low)
        timer_byte == IF timer THEN 1 ELSE 0
        f2 == IF command = CoverPosition
              THEN Put(Put(f1, 4, timer_byte), 5,
                       IF position /= None
                       THEN Max(0, Min(100, position[1]))
                       ELSE 0)
              ELSE Put(f1, 4, timer_byte)
        f3 == Put(Put(Put(f2, 12, 0), 13, 0), 14, 0)
    IN  Put(PutId(PutId(f3, 15, system_code), 18, device_code), 21, 0)

build_cover_command(command, device_code, system_code, position, timer, channel) ==
    LET f0 == Put(Put(ZeroFrame, 0, 13), 1, channel)
        cmd_high == (command \div 256) % 256
        cmd_low == command % 256
        f1 == Put(Put(f0, 2, cmd_high), 3, cmd_low)
        timer_byte == IF timer THEN 1 ELSE 0
        f2 == IF command \in {CoverUp, CoverDown} THEN Put(f1, 4, timer_byte)
              ELSE IF command = CoverPosition
                   THEN Put(Put(f1, 4, timer_byte), 5,
                            IF position /= None
                            THEN Max(0, Min(100, position[1]))
                            ELSE 0)
                   ELSE f1
        f3 == Put(Put(Put(f2, 12, 0), 13, 0), 14, 0)
    IN  Put(PutId(PutId(f3, 15, system_code), 18, device_code), 21, 0)

\* Whether build_cover_command logs "POSITION command without position
\* value" at warning level: the branch is reached once the channel is stored.
build_cover_command_warns(command, position, channel) ==
    /\ Put(ZeroFrame, 1, channel) /= ValueError
    /\ command = CoverPosition
    /\ position = None

build_start_pair == Put(ZeroFrame, 0, 4)

build_stop_pair == Put(ZeroFrame, 0, 5)

build_start_unpair == Put(ZeroFrame, 0, 7)

build_stop_unpair == Put(ZeroFrame, 0, 8)

\* ------------------------------------------------------------------------
\* Calls of the encoder: a method and its arguments.  Identifiers are any
\* three bytes; channel, status_type, index and position are Python ints,
\* taken inside, at the ends of and beside the range of a byte.
\* ------------------------------------------------------------------------
EncIds == {SystemCode, DeviceList[1], <<0, 0, 0>>, <<255, 255, 255>>}
EncInts == {-1, 0, 1, 15, 170, 255, 256}
EncIndexes == {-1, 0, 1, 255, 256, 300}
EncPositions == {None} \cup {<<p>> : p \in ((0 - 5)..105) \cup {150}}

EncCalls ==
    {[op |-> o] : o \in {"build_init1", "build_init2", "build_init3",
                         "build_init_end", "build_ack",
                         "build_status_request_broadcast",
                         "build_start_pair", "build_stop_pair",
                         "build_start_unpair", "build_stop_unpair"}}
    \cup {[op |-> "build_set_dongle", system_code |-> s] : s \in EncIds}
    \cup {[op |-> "build_set_pair", index |-> i, device_code |-> d] :
            i \in EncIndexes, d \in EncIds}
    \cup {[op |-> "build_status_request", device_code |-> d,
           system_code |-> s, status_type |-> t] :
            d \in EncIds, s \in EncIds, t \in EncInts}
    \cup {[op |-> "build_cover_command", command |-> c, device_code |-> d,
           system_code |-> s, position |-> p, timer |-> t, channel |-> ch] :
            c \in CoverCommand, d \in {DeviceList[1], <<255, 255, 255>>},
            s \in {SystemCode, <<0, 0, 0>>}, p \in EncPositions,
            t \in BOOLEAN, ch \in EncInts}

NoCall == [op |-> "none"]
NotRun == [done |-> FALSE, result |-> <<>>, warned |-> FALSE]

\* ------------------------------------------------------------------------
\* Decoder (DuoFernDecoder)
\* ------------------------------------------------------------------------
is_ack(frame) == frame[1] = 129

is_broadcast_status_ack(frame) ==
    frame[1] = 15 /\ frame[2] = 255 /\ frame[3] = 17

is_status_response(frame) ==
    frame[1] = 15 /\ frame[2] = 255 /\ frame[3] = 15

is_pair_response(frame) == frame[1] = 6 /\ frame[2] = 2

\* Mutant of should_dispatch: the broadcast status ack is not filtered.
should_dispatch_no_filter(frame) ==
    IF frame[1] = 129 THEN FALSE ELSE TRUE

should_dispatch(frame) ==
    IF frame[1] = 129 THEN FALSE
    ELSE IF frame[1] = 15 /\ frame[2] = 255 /\ frame[3] = 17 THEN FALSE
    ELSE TRUE


\* ------------------------------------------------------------------------
\* Inbound traffic: the frames the stick hardware sends, and the chunks in
\* which the serial transport hands them to data_received.
\* ------------------------------------------------------------------------
AckIn == build_ack

StatusIn ==
    Put(PutId(Put(Put(Put(ZeroFrame, 0, 15), 1, 255), 2, 15), 15, DeviceList[1]),
        11, 42)

BcastAckIn == Put(Put(Put(ZeroFrame, 0, 15), 1, 255), 2, 17)

PairIn == PutId(Put(Put(ZeroFrame, 0, 6), 1, 2), 15, DeviceList[1])

InFrames == {AckIn, StatusIn, BcastAckIn, PairIn}

\* A split frame arrives as its first and its last 11 bytes.
HalfLen == FRAME_SIZE_BYTES \div 2

\* Chunks of whole frames, one of them holding two frames.
FrameChunks == {AckIn, StatusIn, StatusIn \o AckIn}

\* All chunks: every frame alone, two frames at once, and the halves.
Chunks ==
    InFrames
    \cup {StatusIn \o AckIn}
    \cup {SubSeq(AckIn, 1, HalfLen), SubSeq(AckIn, HalfLen + 1, FRAME_SIZE_BYTES)}

\* Frames the model passes to send_command.
CommandFrames ==
    {build_cover_command(CoverUp, DeviceList[1], SystemCode, None, FALSE, 1),
     build_cover_command(CoverStop, DeviceList[1], SystemCode, None, FALSE, 1)}

\* The inbound byte stream of the runs that follow every byte: frames of the
\* four kinds in turn, every byte outside the header different from every
\* other byte of the stream.  NumStreamFrames frames of it come in while the
\* handshake runs, NumReadyFrames when the stream starts after the handshake.
NumStreamFrames == 3
NumReadyFrames == 4
StreamLen == NumStreamFrames * FRAME_SIZE_BYTES
ReadyStreamLen == NumReadyFrames * FRAME_SIZE_BYTES

StreamFrame(k) ==
    LET body == [i \in 1..FRAME_SIZE_BYTES |-> FRAME_SIZE_BYTES * (k - 1) + i]
        kind == (k - 1) % 4
    IN  IF kind = 0 THEN Put(Put(Put(body, 0, 15), 1, 255), 2, 15)
        ELSE IF kind = 1 THEN Put(body, 0, 129)
        ELSE IF kind = 2 THEN Put(Put(Put(body, 0, 15), 1, 255), 2, 17)
        ELSE Put(Put(body, 0, 6), 1, 2)

Stream ==
    [i \in 1..(StreamLen + ReadyStreamLen) |->
        StreamFrame(((i - 1) \div FRAME_SIZE_BYTES) + 1)[((i - 1) % FRAME_SIZE_BYTES) + 1]]

\* The sizes of the chunks in which the transport hands the stream over.
ChunkSizes == {5, 10, 22, 34}
\* data_received calls while the handshake runs.
MaxChunks == 5
ReadyChunkSizes == {10, 22, 34}

\* ------------------------------------------------------------------------
\* State
\* ------------------------------------------------------------------------
VARIABLES
    \* DuoFernStick fields
    transport,        \* "none" | "open"        (self._transport)
    serialProtocol,   \* BOOLEAN                (self._serial_protocol is set)
    connected,        \* self._connected
    initialized,      \* self._initialized
    closing,          \* self._closing
    sendQueue,        \* self._send_queue
    ackEvent,         \* self._ack_event
    cmdInFlight,      \* self._cmd_in_flight
    \* DuoFernSerialProtocol fields
    buffer,           \* self._buffer
    flushArmed,       \* self._flush_handle is a pending timer
    timers,           \* the call_later timers pending in the event loop
    initFuture,       \* self._init_response_future
    \* positions of the coroutines
    connPc,           \* connect(): "idle" | "init" | "ready" | "failed"
    attempt,          \* loop variable of _init_sequence
    initStep,         \* step of the attempt whose reply is awaited
    workerPc,         \* _process_send_queue task
    cancelReq,        \* Task.cancel() was called on the worker, not yet taken
    discPc,           \* disconnect(): "idle" | "awaitWorker"
    \* observations of what the program did
    initLog,          \* writes, replies and timeouts of the current attempt
    rxLog,            \* what the last data_received did with each frame
    accepted,         \* frames send_command put on the queue
    cmdWritten,       \* frames the worker wrote to the transport
    waitsEnded,       \* ACK waits of the worker ended by ACK or timeout
    lastWait,         \* how the last ended wait ended
    ackSeen,          \* a frame with byte 0 = 0x81 came in since the last write
    anyReply,         \* a reply reached the handshake in this connect()
    onlyInit1,        \* every step frame written in this connect() is Init1
    init1Written,     \* Init1 frames written in this connect()
    nConnects,
    nDisconnects,
    fed,              \* bytes of Stream handed to data_received so far
    trace,            \* what the code did with the frames of Stream
    \* a call of a DuoFernEncoder method
    encCall,          \* the method and its arguments
    encOut,           \* whether it has run, and what it yielded
    \* a call of a DuoFernDecoder or DuoFernId method
    decCall,          \* the method and its argument
    decOut,           \* whether it has run, the calls so far, the outcome
                      \* and the outcome of the call before
    \* DuoFernCoordinator fields
    devices           \* self._data.devices: the state of each paired device

stickVars == <<transport, serialProtocol, connected, initialized, closing,
               sendQueue, ackEvent, cmdInFlight>>
protoVars == <<buffer, flushArmed, timers, initFuture>>
pcVars == <<connPc, attempt, initStep, workerPc, cancelReq, discPc>>
obsVars == <<initLog, rxLog, accepted, cmdWritten, waitsEnded, lastWait,
             ackSeen, anyReply, onlyInit1, init1Written, nConnects,
             nDisconnects>>
streamVars == <<fed, trace>>
encVars == <<encCall, encOut>>
decVars == <<decCall, decOut>>
codecVars == <<encVars, decVars>>
coordVars == <<devices>>
vars == <<stickVars, protoVars, pcVars, obsVars, streamVars, codecVars,
          coordVars>>

\* The response future: absent, pending or done.  Its result is only ever
\* compared with None (resp is None), so the frame it holds is left out.
NoFuture == "none"
PendingFuture == "pending"
DoneFuture(frame) == "done"

\* ------------------------------------------------------------------------
\* Outcomes of a call: a value returned or an exception raised.
\* ------------------------------------------------------------------------
Ok(v) == [raised |-> "none", value |-> v]
Raised(e) == [raised |-> e]

\* An optional field that is set (None when it is not).
Some(v) == <<v>>

\* ------------------------------------------------------------------------
\* Strings are sequences of characters.  bytes.hex(), str.upper() and
\* bytes.fromhex() as Python computes them.
\* ------------------------------------------------------------------------
HexLower == <<"0", "1", "2", "3", "4", "5", "6", "7", "8", "9",
              "a", "b", "c", "d", "e", "f">>
HexUpper == <<"0", "1", "2", "3", "4", "5", "6", "7", "8", "9",
              "A", "B", "C", "D", "E", "F">>
Whitespace == {" ", "\t", "\n", "\r"}

\* bytes.hex(): two lower-case digits per byte.
RECURSIVE BytesHex(_)
BytesHex(bytes) ==
    IF bytes = <<>> THEN <<>>
    ELSE <<HexLower[(Head(bytes) \div 16) + 1], HexLower[(Head(bytes) % 16) + 1]>>
         \o BytesHex(Tail(bytes))

\* str.upper()
Upper(str) ==
    [i \in 1..Len(str) |->
        IF \E k \in 11..16 : HexLower[k] = str[i]
        THEN HexUpper[CHOOSE k \in 11..16 : HexLower[k] = str[i]]
        ELSE str[i]]

\* The value of a hexadecimal digit of either case, -1 for any other
\* character.
HexValue(c) ==
    IF \E k \in 1..16 : HexLower[k] = c
    THEN (CHOOSE k \in 1..16 : HexLower[k] = c) - 1
    ELSE IF \E k \in 1..16 : HexUpper[k] = c
    THEN (CHOOSE k \in 1..16 : HexUpper[k] = c) - 1
    ELSE 0 - 1

\* bytes.fromhex(): whitespace before a byte is skipped, then two digits
\* must follow each other; anything else raises ValueError.
RECURSIVE FromHexAt(_, _)
FromHexAt(str, i) ==
    IF i > Len(str) THEN Ok(<<>>)
    ELSE IF str[i] \in Whitespace THEN FromHexAt(str, i + 1)
    ELSE IF HexValue(str[i]) < 0 THEN Raised("ValueError")
    ELSE IF i + 1 > Len(str) THEN Raised("ValueError")
    ELSE IF HexValue(str[i + 1]) < 0 THEN Raised("ValueError")
    ELSE LET rest == FromHexAt(str, i + 2)
         IN  IF rest.raised /= "none" THEN rest
             ELSE Ok(<<16 * HexValue(str[i]) + HexValue(str[i + 1])>>
                     \o rest.value)

fromhex(str) == FromHexAt(str, 1)

\* ------------------------------------------------------------------------
\* DuoFernId
\* ------------------------------------------------------------------------
COVER_DEVICE_TYPES == {64, 65, 66, 71, 73, 75, 76, 78, 97, 112}

\* DuoFernId(raw=...): __post_init__ raises unless raw has 3 bytes.
DuoFernId(raw) ==
    IF Len(raw) /= 3 THEN Raised("ValueError") ELSE Ok([raw |-> raw])

\* DuoFernId.from_hex
from_hex(hex_str) ==
    IF Len(hex_str) /= 6 THEN Raised("ValueError")
    ELSE LET bytes == fromhex(hex_str)
         IN  IF bytes.raised /= "none" THEN bytes ELSE DuoFernId(bytes.value)

\* Mutant of hex: a byte below 16 is written as one digit.
RECURSIVE BytesHexUnpadded(_)
BytesHexUnpadded(bytes) ==
    IF bytes = <<>> THEN <<>>
    ELSE (IF Head(bytes) < 16 THEN <<HexLower[Head(bytes) + 1]>>
          ELSE <<HexLower[(Head(bytes) \div 16) + 1],
                 HexLower[(Head(bytes) % 16) + 1]>>)
         \o BytesHexUnpadded(Tail(bytes))

hex_unpadded(id) == Upper(BytesHexUnpadded(id.raw))

\* DuoFernId.hex
hex(id) == Upper(BytesHex(id.raw))

\* DuoFernId.is_cover
is_cover(id) == id.raw[1] \in COVER_DEVICE_TYPES

\* frame_to_hex
frame_to_hex(frame) == Upper(BytesHex(frame))

\* ------------------------------------------------------------------------
\* DuoFernDecoder on any data: bytes ([type |-> "bytes"]) or a string
\* ([type |-> "str"]).  A method yields Ok(value) or the exception raised.
\* ------------------------------------------------------------------------
FRAME_SIZE_HEX == 44

\* Mutant of _ensure_bytes: bytes of another length are cut or filled with
\* zeros to 22 bytes, a string of another length is decoded as it is.
ensure_bytes_lenient(data) ==
    IF data.type = "str"
    THEN fromhex(data.val)
    ELSE Ok([i \in 1..FRAME_SIZE_BYTES |->
                IF i <= Len(data.val) THEN data.val[i] ELSE 0])

ensure_bytes(data) ==
    IF data.type = "str"
    THEN IF Len(data.val) /= FRAME_SIZE_HEX THEN Raised("ValueError")
         ELSE fromhex(data.val)
    ELSE IF Len(data.val) /= FRAME_SIZE_BYTES THEN Raised("ValueError")
         ELSE Ok(data.val)

\* frame[a:b]: a slice ends where the frame ends.
Slice(frame, a, b) == SubSeq(frame, a + 1, Min(b, Len(frame)))

\* frame[0] == e1 and frame[1] == e2 and ...: the bytes are read in turn
\* until one differs; reading past the end raises IndexError.
RECURSIVE MatchPrefix(_, _, _)
MatchPrefix(frame, expect, i) ==
    IF i > Len(expect) THEN Ok(TRUE)
    ELSE IF i > Len(frame) THEN Raised("IndexError")
    ELSE IF frame[i] /= expect[i] THEN Ok(FALSE)
    ELSE MatchPrefix(frame, expect, i + 1)

Bytes(frame) == [type |-> "bytes", val |-> frame]

Decoder_is_ack(data) ==
    LET e == ensure_bytes(data)
    IN  IF e.raised /= "none" THEN e ELSE MatchPrefix(e.value, <<129>>, 1)

\* The members of the IntEnum MessageType, by value.
MessageTypeNames ==
    (1 :> "INIT1") @@ (3 :> "SET_PAIRS") @@ (4 :> "START_PAIR")
    @@ (5 :> "STOP_PAIR") @@ (6 :> "PAIR_RESPONSE") @@ (7 :> "START_UNPAIR")
    @@ (8 :> "STOP_UNPAIR") @@ (10 :> "SET_DONGLE") @@ (13 :> "COMMAND")
    @@ (14 :> "INIT2") @@ (15 :> "STATUS") @@ (16 :> "INIT_END")
    @@ (20 :> "INIT3") @@ (129 :> "ACK")

\* MessageType(value): the member of that value; ValueError when there is none.
MessageType(value) ==
    IF value \in DOMAIN MessageTypeNames
      THEN Ok([enum |-> "MessageType", name |-> MessageTypeNames[value],
               value |-> value])
      ELSE Raised("ValueError")

\* Mutant of classify_message: the ValueError of MessageType is not caught.
classify_message_uncaught(data) ==
    LET e == ensure_bytes(data)
    IN  IF e.raised /= "none" THEN e
        ELSE IF Len(e.value) < 1 THEN Raised("IndexError")
        ELSE MessageType(e.value[1])

classify_message(data) ==
    LET e == ensure_bytes(data)
    IN  IF e.raised /= "none" THEN e
        ELSE IF Len(e.value) < 1 THEN Raised("IndexError")
        ELSE LET member == MessageType(e.value[1])
             IN  IF member.raised = "ValueError" THEN Ok(e.value[1])
                 ELSE member

\* Mutant of extract_device_code: bytes 15..17 whatever the kind.
extract_device_code_one_place(data) ==
    LET e == ensure_bytes(data)
    IN  IF e.raised /= "none" THEN e
        ELSE IF Len(e.value) < 1 THEN Raised("IndexError")
        ELSE DuoFernId(Slice(e.value, 15, 18))

extract_device_code(data) ==
    LET e == ensure_bytes(data)
    IN  IF e.raised /= "none" THEN e
        ELSE IF Len(e.value) < 1 THEN Raised("IndexError")
        ELSE IF e.value[1] = 129 THEN DuoFernId(Slice(e.value, 18, 21))
        ELSE DuoFernId(Slice(e.value, 15, 18))

extract_device_code_from_status(data) ==
    LET e == ensure_bytes(data)
    IN  IF e.raised /= "none" THEN e ELSE DuoFernId(Slice(e.value, 15, 18))

Decoder_is_status_response(data) ==
    LET e == ensure_bytes(data)
    IN  IF e.raised /= "none" THEN e
        ELSE MatchPrefix(e.value, <<15, 255, 15>>, 1)

Decoder_is_pair_response(data) ==
    LET e == ensure_bytes(data)
    IN  IF e.raised /= "none" THEN e ELSE MatchPrefix(e.value, <<6, 2>>, 1)

is_unpair_response(data) ==
    LET e == ensure_bytes(data)
    IN  IF e.raised /= "none" THEN e ELSE MatchPrefix(e.value, <<6, 3>>, 1)

Decoder_is_broadcast_status_ack(data) ==
    LET e == ensure_bytes(data)
    IN  IF e.raised /= "none" THEN e
        ELSE MatchPrefix(e.value, <<15, 255, 17>>, 1)

Decoder_should_dispatch(data) ==
    LET e == ensure_bytes(data)
    IN  IF e.raised /= "none" THEN e
        ELSE LET ack == MatchPrefix(e.value, <<129>>, 1)
                 bcast == MatchPrefix(e.value, <<15, 255, 17>>, 1)
             IN  IF ack.raised /= "none" THEN ack
                 ELSE IF ack.value THEN Ok(FALSE)
                 ELSE IF bcast.raised /= "none" THEN bcast
                 ELSE IF bcast.value THEN Ok(FALSE)
                 ELSE Ok(TRUE)

\* a & b and a | b on non-negative integers
RECURSIVE BitAnd(_, _)
BitAnd(a, b) ==
    IF a = 0 \/ b = 0 THEN 0
    ELSE (a % 2) * (b % 2) + 2 * BitAnd(a \div 2, b \div 2)

RECURSIVE BitOr(_, _)
BitOr(a, b) ==
    IF a = 0 THEN b
    ELSE IF b = 0 THEN a
    ELSE Max(a % 2, b % 2) + 2 * BitOr(a \div 2, b \div 2)

\* str(n) of a non-negative integer
RECURSIVE Decimal(_)
Decimal(n) ==
    IF n < 10 THEN <<HexLower[n + 1]>>
    ELSE Decimal(n \div 10) \o <<HexLower[(n % 10) + 1]>>

\* DeviceStatus(): every field at its default.
DeviceStatus ==
    [position |-> None, moving |-> "stop", time_automatic |-> None,
     sun_automatic |-> None, dawn_automatic |-> None, dusk_automatic |-> None,
     manual_mode |-> None, ventilating_mode |-> None, sun_mode |-> None,
     sun_position |-> None, ventilating_position |-> None, version |-> None]

\* Mutant of read_word: the low byte first.
read_word_little_endian(frame, pos) ==
    LET byte_offset == 3 + pos
    IN  IF byte_offset + 1 >= FRAME_SIZE_BYTES THEN 0
        ELSE BitOr(frame[byte_offset + 2] * 256, frame[byte_offset + 1])

read_word(frame, pos) ==
    LET byte_offset == 3 + pos
    IN  IF byte_offset + 1 >= FRAME_SIZE_BYTES THEN 0
        ELSE BitOr(frame[byte_offset + 1] * 256, frame[byte_offset + 2])

\* Mutant of extract_bits: the length leaves out the last bit.
extract_bits_short(word, from_bit, to_bit) ==
    LET length == to_bit - from_bit
    IN  BitAnd(word \div (2 ^ from_bit), (2 ^ length) - 1)

extract_bits(word, from_bit, to_bit) ==
    LET length == to_bit - from_bit + 1
    IN  BitAnd(word \div (2 ^ from_bit), (2 ^ length) - 1)

bool(n) == n /= 0

\* The fields parse_status_type40 reads from a 22-byte status response.
Type40Fields(frame, moving) ==
    LET ver_byte == frame[13]
        word7 == read_word(frame, 7)
        word0 == read_word(frame, 0)
        word1 == read_word(frame, 1)
        word2 == read_word(frame, 2)
        word6 == read_word(frame, 6)
    IN  [position |-> Some(extract_bits(word7, 0, 6)),
         moving |-> moving,
         time_automatic |-> Some(bool(extract_bits(word0, 0, 0))),
         sun_automatic |-> Some(bool(extract_bits(word0, 2, 2))),
         dawn_automatic |-> Some(bool(extract_bits(word1, 3, 3))),
         dusk_automatic |-> Some(bool(extract_bits(word0, 3, 3))),
         manual_mode |-> Some(bool(extract_bits(word0, 7, 7))),
         ventilating_mode |-> Some(bool(extract_bits(word2, 7, 7))),
         sun_mode |-> Some(bool(extract_bits(word6, 7, 7))),
         sun_position |-> Some(extract_bits(word6, 0, 6)),
         ventilating_position |-> Some(extract_bits(word2, 0, 6)),
         version |-> Some(Decimal(BitAnd(ver_byte \div 16, 15)) \o <<".">>
                          \o Decimal(BitAnd(ver_byte, 15)))]

\* Mutant of parse_status_type40: the moving bit (word 0, bit 0) is reported
\* as a direction.
parse_status_type40_moving_bit(data) ==
    LET e == ensure_bytes(data)
    IN  IF e.raised /= "none" THEN e
        ELSE LET is_status == Decoder_is_status_response(Bytes(e.value))
             IN  IF is_status.raised /= "none" THEN is_status
                 ELSE IF ~is_status.value THEN Ok(DeviceStatus)
                 ELSE Ok(Type40Fields(e.value,
                         IF extract_bits(read_word(e.value, 0), 0, 0) = 1
                         THEN "up" ELSE "stop"))

parse_status_type40(data) ==
    LET e == ensure_bytes(data)
    IN  IF e.raised /= "none" THEN e
        ELSE LET is_status == Decoder_is_status_response(Bytes(e.value))
             IN  IF is_status.raised /= "none" THEN is_status
                 ELSE IF ~is_status.value THEN Ok(DeviceStatus)
                 ELSE Ok(Type40Fields(e.value, "stop"))

\* Mutant of parse_status: the status object is shared between calls, so a
\* frame that is not parsed yields what the call before it left.
parse_status_shared(data) ==
    LET e == ensure_bytes(data)
    IN  IF e.raised /= "none" THEN e
        ELSE LET device_code == extract_device_code_from_status(Bytes(e.value))
             IN  IF device_code.raised /= "none" THEN device_code
                 ELSE IF is_cover(device_code.value)
                 THEN parse_status_type40(Bytes(e.value))
                 ELSE IF decOut.calls > 0 /\ decOut.result.raised = "none"
                 THEN decOut.result
                 ELSE Ok(DeviceStatus)

parse_status(data) ==
    LET e == ensure_bytes(data)
    IN  IF e.raised /= "none" THEN e
        ELSE LET device_code == extract_device_code_from_status(Bytes(e.value))
             IN  IF device_code.raised /= "none" THEN device_code
                 ELSE IF is_cover(device_code.value)
                 THEN parse_status_type40(Bytes(e.value))
                 ELSE Ok(DeviceStatus)

\* DuoFernCover.current_cover_position for a device whose state holds status.
current_cover_position(status) ==
    IF status.position = None THEN None
    ELSE Some(100 - status.position[1])

\* ------------------------------------------------------------------------
\* Calls of the decoder and of DuoFernId: a method and its argument.
\* ------------------------------------------------------------------------
DecIdCover == <<64, 0, 1>>
DecIdOther == <<160, 18, 52>>

\* Frames for the classifying methods: every byte 0, the bytes 1 and 2 the
\* predicates test, one identifier at bytes 15..17 and another at 18..20.
Fill(n, byte) == SubSeq([i \in 1..n |-> byte], 1, n)

PredFrame(b0, b1, b2) ==
    <<b0, b1, b2>> \o Fill(12, 0) \o DecIdCover \o DecIdOther \o <<0>>

PredFrames ==
    {PredFrame(b0, b1, b2) : b0 \in 0..255, b1 \in {0, 2, 3, 255},
                             b2 \in {0, 15, 17}}

\* Frames for status parsing: a header, the identifier at bytes 15..17, every
\* other byte equal to fill, and the byte at offset k set to v.
StatusFrame(header, fill, id, k, v) ==
    [header \o Fill(12, fill) \o id \o Fill(4, fill) EXCEPT ![k + 1] = v]

StatusHeader == <<15, 255, 15>>

StatusFrames ==
    {StatusFrame(StatusHeader, fill, id, k, v) :
        fill \in {0, 255}, id \in {DecIdCover, DecIdOther},
        k \in 3..21, v \in 0..255}
    \cup {StatusFrame(header, 255, DecIdCover, 11, v) :
            header \in {<<15, 255, 17>>, <<129, 255, 15>>, <<15, 0, 15>>},
            v \in {42, 127}}

\* A status response of a cover at position 42.
GoodFrame == StatusFrame(StatusHeader, 0, DecIdCover, 11, 42)

Spaces(n) == Fill(n, " ")

\* Data that is no 22-byte frame and no string of 44 hexadecimal digits.
OddBytes ==
    {SubSeq(GoodFrame, 1, n) : n \in {0, 1, 3, 18, 21}}
    \cup {GoodFrame \o <<0>>, GoodFrame \o GoodFrame}

OddStrs ==
    {SubSeq(frame_to_hex(GoodFrame), 1, n) : n \in {0, 6, 22, 42, 43}}
    \cup {frame_to_hex(GoodFrame) \o <<"0">>,
          frame_to_hex(GoodFrame) \o <<"0", "0">>,
          frame_to_hex(GoodFrame) \o frame_to_hex(GoodFrame),
          <<" ">> \o frame_to_hex(GoodFrame)}

\* Strings of 44 characters: the digits of a frame in either case, a
\* character that is no digit, and whitespace in place of digits.
Strs44 ==
    {frame_to_hex(GoodFrame), BytesHex(GoodFrame),
     frame_to_hex(PredFrame(129, 0, 0)),
     SubSeq(frame_to_hex(GoodFrame), 1, 43) \o <<"G">>,
     SubSeq(frame_to_hex(GoodFrame), 1, 42) \o Spaces(2),
     SubSeq(frame_to_hex(GoodFrame), 1, 43) \o Spaces(1),
     <<"8", "1">> \o Spaces(42),
     Spaces(44)}

OddData ==
    {[type |-> "bytes", val |-> b] : b \in OddBytes}
    \cup {[type |-> "str", val |-> s] : s \in OddStrs \cup Strs44}

DecPredOps ==
    {"is_ack", "classify_message", "extract_device_code",
     "extract_device_code_from_status", "is_status_response",
     "is_pair_response", "is_unpair_response", "is_broadcast_status_ack",
     "should_dispatch"}

DecParseOps == {"parse_status_type40", "parse_status"}

\* Raw values of identifiers: every value of each byte.
IdRaws ==
    {<<v, 0, 1>> : v \in 0..255} \cup {<<171, v, 205>> : v \in 0..255}
    \cup {<<15, 160, v>> : v \in 0..255}

OddRaws == {<<>>, <<1>>, <<1, 2>>, <<1, 2, 3, 4>>, GoodFrame}

HexStrs ==
    {<<"6", "F", "1", "A", "2", "B">>, <<"6", "f", "1", "a", "2", "b">>,
     <<"0", "0", "0", "0", "0", "0">>,
     <<>>, <<"6", "F", "1", "A", "2">>, <<"6", "F", "1", "A">>,
     <<"6", "F", "1", "A", "2", "B", "3">>,
     <<"6", "F", "1", "A", "2", "B", "3", "C">>,
     <<"6", "F", "1", "A", "2", "G">>, <<"0", "x", "6", "F", "1", "A">>,
     <<"6", "F", " ", "1", "A", " ">>, <<"6", "F", "1", "A", " ", "2">>,
     <<" ", "6", "F", "1", "A", "2", "B">>, Spaces(6)}

PredCalls ==
    {[op |-> o, data |-> d] :
        o \in DecPredOps,
        d \in {Bytes(f) : f \in PredFrames} \cup OddData}

ParseCalls ==
    {[op |-> o, data |-> d] :
        o \in DecParseOps,
        d \in {Bytes(f) : f \in StatusFrames} \cup OddData}

IdCalls ==
    {[op |-> "DuoFernId", raw |-> r] : r \in IdRaws \cup OddRaws}
    \cup {[op |-> "hex", raw |-> r] : r \in IdRaws}
    \cup {[op |-> "from_hex", hex_str |-> s] : s \in HexStrs}

\* Status frames that come one after the other.
FollowUpCalls ==
    {[op |-> "parse_status", data |-> Bytes(f)] :
        f \in {GoodFrame,
               StatusFrame(StatusHeader, 255, DecIdCover, 4, 129),
               StatusFrame(StatusHeader, 0, DecIdOther, 11, 42),
               StatusFrame(StatusHeader, 255, DecIdOther, 11, 127)}}

\* Calls of the decoder that follow each other in one run.
MaxDecCalls == 2

NotDecoded ==
    [done |-> FALSE, calls |-> 0, result |-> Raised("not run"),
     before |-> Raised("not run")]

\* DuoFernDeviceState(device_code): the state of a device as the coordinator
\* creates it, with the default status.
DuoFernDeviceState(device_code) ==
    [device_code |-> device_code, status |-> DeviceStatus, available |-> TRUE]

\* DuoFernCoordinator.__init__: one state for each paired device.
\* The devices are keyed by the hex string of their code.
DuoFernData ==
    [h \in {hex([raw |-> PairedDevices[i]]) : i \in 1..Len(PairedDevices)} |->
        DuoFernDeviceState(CHOOSE d \in {PairedDevices[i] : i \in 1..Len(PairedDevices)} : hex([raw |-> d]) = h)]

InitStick ==
    /\ devices = DuoFernData
    /\ transport = "none"
    /\ serialProtocol = FALSE
    /\ connected = FALSE
    /\ initialized = FALSE
    /\ closing = FALSE
    /\ sendQueue = <<>>
    /\ ackEvent = FALSE
    /\ cmdInFlight = FALSE
    /\ buffer = <<>>
    /\ flushArmed = FALSE
    /\ initFuture = NoFuture
    /\ connPc = "idle"
    /\ attempt = 0
    /\ initStep = 0
    /\ workerPc = "none"
    /\ cancelReq = FALSE
    /\ discPc = "idle"
    /\ initLog = <<>>
    /\ rxLog = <<>>
    /\ accepted = <<>>
    /\ cmdWritten = <<>>
    /\ waitsEnded = 0
    /\ lastWait = "none"
    /\ ackSeen = FALSE
    /\ anyReply = FALSE
    /\ onlyInit1 = TRUE
    /\ init1Written = 0
    /\ nConnects = 0
    /\ nDisconnects = 0
    /\ timers = {}
    /\ fed = 0
    /\ trace = <<>>

\* No encoder call is followed.
Init ==
    /\ InitStick
    /\ encCall = NoCall
    /\ encOut = NotRun
    /\ decCall = NoCall
    /\ decOut = NotDecoded

\* The stick as constructed, and one encoder call about to be made.
InitEnc ==
    /\ InitStick
    /\ encCall \in EncCalls
    /\ encOut = NotRun
    /\ decCall = NoCall
    /\ decOut = NotDecoded

\* The stick as constructed, and one decoder or identifier call about to be
\* made.
InitDec ==
    /\ InitStick
    /\ encCall = NoCall
    /\ encOut = NotRun
    /\ \/ decCall \in PredCalls
       \/ decCall \in ParseCalls
       \/ decCall \in IdCalls
    /\ decOut = NotDecoded

\* ------------------------------------------------------------------------
\* _write_frame: the frame reaches the transport unless the transport is None
\* ------------------------------------------------------------------------
CanWrite == transport = "open"

\* ------------------------------------------------------------------------
\* _init_sequence: the steps of one attempt, numbered 1 .. LastStep
\* ------------------------------------------------------------------------
FirstPairStep == 5
LastStep == 6 + Len(PairedDevices)

IsPairStep(s) == FirstPairStep <= s /\ s < FirstPairStep + Len(PairedDevices)

\* Mutant of StepSendsAck: every reply is acknowledged.
StepSendsAckAlways(s) == TRUE

\* The handshake sends an Ack after the reply of every step from SetDongle on.
FirstAckedStep == 3
StepSendsAck(s) == s >= FirstAckedStep

\* Mutant of StepFrame: the pair slots are numbered from 1.
StepFrameSlotFromOne(s) ==
    IF s = 1 THEN build_init1
    ELSE IF s = 2 THEN build_init2
    ELSE IF s = 3 THEN build_set_dongle(SystemCode)
    ELSE IF s = 4 THEN build_init3
    ELSE IF IsPairStep(s)
      THEN build_set_pair(s - FirstPairStep + 1,
                          PairedDevices[s - FirstPairStep + 1])
    ELSE IF s = LastStep - 1 THEN build_init_end
    ELSE build_status_request_broadcast

StepFrame(s) ==
    IF s = 1 THEN build_init1
    ELSE IF s = 2 THEN build_init2
    ELSE IF s = 3 THEN build_set_dongle(SystemCode)
    ELSE IF s = 4 THEN build_init3
    ELSE IF IsPairStep(s)
      THEN build_set_pair(s - FirstPairStep, PairedDevices[s - FirstPairStep + 1])
    ELSE IF s = LastStep - 1 THEN build_init_end
    ELSE build_status_request_broadcast

StepEntry(s) == [kind |-> "step", frame |-> StepFrame(s)]
AckEntry == [kind |-> "ack", frame |-> build_ack]
ReplyEntry == [kind |-> "reply", frame |-> <<>>]
TimeoutEntry == [kind |-> "timeout", frame |-> <<>>]

\* _send_and_wait up to its await: arm the response future, write the frame.
SendAndWait(att, s, log) ==
    /\ attempt' = att
    /\ initStep' = s
    /\ initFuture' = PendingFuture
    /\ initLog' = IF CanWrite THEN Append(log, StepEntry(s)) ELSE log
    /\ init1Written' = IF CanWrite /\ s = 1 THEN init1Written + 1 ELSE init1Written
    /\ onlyInit1' = (onlyInit1 /\ (s = 1 \/ ~CanWrite))


\* ------------------------------------------------------------------------
\* connect(), lines 89-120, up to the first suspension of _init_sequence:
\* the serial connection is created with a fresh DuoFernSerialProtocol,
\* _connected is set, and attempt 0 sends Init1 and awaits its reply.
\* connect() is called on a stick that is not connected and on which no
\* other connect() or disconnect() is running.
\* ------------------------------------------------------------------------
\* Mutant of ConnectOpen: the queue task is created before the handshake.
ConnectOpenWorkerFirst ==
    /\ connPc \in {"idle", "ready", "failed"}
    /\ ~connected
    /\ discPc = "idle"
    /\ nConnects < MaxConnects
    /\ nConnects' = nConnects + 1
    /\ transport' = "open"
    /\ serialProtocol' = TRUE
    /\ buffer' = <<>>
    /\ flushArmed' = FALSE
    /\ timers' = {}
    /\ connected' = TRUE
    /\ connPc' = "init"
    /\ attempt' = 0
    /\ initStep' = 1
    /\ initFuture' = PendingFuture
    /\ initLog' = <<StepEntry(1)>>
    /\ init1Written' = 1
    /\ onlyInit1' = TRUE
    /\ anyReply' = FALSE
    /\ workerPc' = "start"
    /\ cancelReq' = FALSE
    /\ UNCHANGED <<initialized, closing, sendQueue, ackEvent, cmdInFlight,
                   discPc, rxLog, accepted, cmdWritten, waitsEnded, lastWait,
                   ackSeen, nDisconnects>>
    /\ UNCHANGED <<streamVars, codecVars, coordVars>>

ConnectOpen ==
    /\ connPc \in {"idle", "ready", "failed"}
    /\ ~connected
    /\ discPc = "idle"
    /\ nConnects < MaxConnects
    /\ nConnects' = nConnects + 1
    /\ transport' = "open"
    /\ serialProtocol' = TRUE
    /\ buffer' = <<>>
    /\ flushArmed' = FALSE
    /\ timers' = {}
    /\ connected' = TRUE
    /\ connPc' = "init"
    /\ attempt' = 0
    /\ initStep' = 1
    /\ initFuture' = PendingFuture
    /\ initLog' = <<StepEntry(1)>>
    /\ init1Written' = 1
    /\ onlyInit1' = TRUE
    /\ anyReply' = FALSE
    /\ UNCHANGED <<initialized, closing, sendQueue, ackEvent, cmdInFlight,
                   workerPc, cancelReq, discPc, rxLog, accepted, cmdWritten,
                   waitsEnded, lastWait, ackSeen, nDisconnects>>
    /\ UNCHANGED <<streamVars, codecVars, coordVars>>

\* Mutant of InitReply: the queue task is created at the first reply.
InitReplyWorkerEarly ==
    /\ connPc = "init"
    /\ initFuture = "done"
    /\ LET log == IF StepSendsAck(initStep) /\ CanWrite
                    THEN Append(initLog, AckEntry) ELSE initLog
       IN IF initStep = LastStep
            THEN /\ initialized' = TRUE
                 /\ connPc' = "ready"
                 /\ initFuture' = NoFuture
                 /\ initLog' = log
                 /\ workerPc' = "start"
                 /\ cancelReq' = FALSE
                 /\ UNCHANGED <<attempt, initStep, init1Written, onlyInit1>>
            ELSE /\ SendAndWait(attempt, initStep + 1, log)
                 /\ workerPc' = IF workerPc = "none" THEN "start" ELSE workerPc
                 /\ UNCHANGED <<initialized, connPc, cancelReq>>
    /\ UNCHANGED <<transport, serialProtocol, connected, closing, sendQueue,
                   ackEvent, cmdInFlight, buffer, flushArmed, timers, discPc, rxLog,
                   accepted, cmdWritten, waitsEnded, lastWait, ackSeen, anyReply,
                   nConnects, nDisconnects>>
    /\ UNCHANGED <<streamVars, codecVars, coordVars>>

\* _init_sequence resumed with a reply (resp is not None): the Ack owed for
\* the step is written, then either the next step is sent or, after the
\* last step, _initialized is set and connect() creates the queue task.
InitReply ==
    /\ connPc = "init"
    /\ initFuture = "done"
    /\ LET log == IF StepSendsAck(initStep) /\ CanWrite
                    THEN Append(initLog, AckEntry) ELSE initLog
       IN IF initStep = LastStep
            THEN /\ initialized' = TRUE
                 /\ connPc' = "ready"
                 /\ initFuture' = NoFuture
                 /\ initLog' = log
                 /\ workerPc' = "start"
                 /\ cancelReq' = FALSE
                 /\ UNCHANGED <<attempt, initStep, init1Written, onlyInit1>>
            ELSE /\ SendAndWait(attempt, initStep + 1, log)
                 /\ UNCHANGED <<initialized, connPc, workerPc, cancelReq>>
    /\ UNCHANGED <<transport, serialProtocol, connected, closing, sendQueue,
                   ackEvent, cmdInFlight, buffer, flushArmed, timers, discPc, rxLog,
                   accepted, cmdWritten, waitsEnded, lastWait, ackSeen, anyReply,
                   nConnects, nDisconnects>>
    /\ UNCHANGED <<streamVars, codecVars, coordVars>>

\* Mutant of InitTimeout: the step that timed out is sent again in the next attempt.
InitTimeoutRetryStep ==
    /\ connPc = "init"
    /\ initFuture = "pending"
    /\ IF IsPairStep(initStep)
         THEN /\ SendAndWait(attempt, initStep + 1, Append(initLog, TimeoutEntry))
              /\ UNCHANGED connPc
         ELSE IF attempt + 1 < INIT_RETRY_COUNT
           THEN /\ SendAndWait(attempt + 1, initStep, <<>>)
                /\ UNCHANGED connPc
           ELSE /\ connPc' = "failed"
                /\ initFuture' = NoFuture
                /\ initLog' = Append(initLog, TimeoutEntry)
                /\ UNCHANGED <<attempt, initStep, init1Written, onlyInit1>>
    /\ UNCHANGED <<transport, serialProtocol, connected, initialized, closing,
                   sendQueue, ackEvent, cmdInFlight, buffer, flushArmed, timers,
                   workerPc, cancelReq, discPc, rxLog, accepted, cmdWritten,
                   waitsEnded, lastWait, ackSeen, anyReply, nConnects, nDisconnects>>
    /\ UNCHANGED <<streamVars, codecVars, coordVars>>

\* Mutant of InitTimeout: one attempt too many (<= for <).
InitTimeoutOneMore ==
    /\ connPc = "init"
    /\ initFuture = "pending"
    /\ IF IsPairStep(initStep)
         THEN /\ SendAndWait(attempt, initStep + 1, Append(initLog, TimeoutEntry))
              /\ UNCHANGED connPc
         ELSE IF attempt + 1 <= INIT_RETRY_COUNT
           THEN /\ SendAndWait(attempt + 1, 1, <<>>)
                /\ UNCHANGED connPc
           ELSE /\ connPc' = "failed"
                /\ initFuture' = NoFuture
                /\ initLog' = Append(initLog, TimeoutEntry)
                /\ UNCHANGED <<attempt, initStep, init1Written, onlyInit1>>
    /\ UNCHANGED <<transport, serialProtocol, connected, initialized, closing,
                   sendQueue, ackEvent, cmdInFlight, buffer, flushArmed, timers,
                   workerPc, cancelReq, discPc, rxLog, accepted, cmdWritten,
                   waitsEnded, lastWait, ackSeen, anyReply, nConnects, nDisconnects>>
    /\ UNCHANGED <<streamVars, codecVars, coordVars>>

\* Mutant of InitTimeout: a SetPair timeout restarts the sequence like any other.
InitTimeoutPairRestarts ==
    /\ connPc = "init"
    /\ initFuture = "pending"
    /\ IF FALSE
         THEN /\ SendAndWait(attempt, initStep + 1, Append(initLog, TimeoutEntry))
              /\ UNCHANGED connPc
         ELSE IF attempt + 1 < INIT_RETRY_COUNT
           THEN /\ SendAndWait(attempt + 1, 1, <<>>)
                /\ UNCHANGED connPc
           ELSE /\ connPc' = "failed"
                /\ initFuture' = NoFuture
                /\ initLog' = Append(initLog, TimeoutEntry)
                /\ UNCHANGED <<attempt, initStep, init1Written, onlyInit1>>
    /\ UNCHANGED <<transport, serialProtocol, connected, initialized, closing,
                   sendQueue, ackEvent, cmdInFlight, buffer, flushArmed, timers,
                   workerPc, cancelReq, discPc, rxLog, accepted, cmdWritten,
                   waitsEnded, lastWait, ackSeen, anyReply, nConnects, nDisconnects>>
    /\ UNCHANGED <<streamVars, codecVars, coordVars>>

\* Mutant of InitTimeout: the attempts are not counted (the sequence is
\* retried until it succeeds).
InitTimeoutNoCount ==
    /\ connPc = "init"
    /\ initFuture = "pending"
    /\ IF IsPairStep(initStep)
         THEN /\ SendAndWait(attempt, initStep + 1, Append(initLog, TimeoutEntry))
              /\ UNCHANGED connPc
         ELSE /\ SendAndWait(attempt, 1, <<>>)
              /\ UNCHANGED connPc
    /\ UNCHANGED <<transport, serialProtocol, connected, initialized, closing,
                   sendQueue, ackEvent, cmdInFlight, buffer, flushArmed, timers,
                   workerPc, cancelReq, discPc, rxLog, accepted, cmdWritten,
                   waitsEnded, lastWait, ackSeen, anyReply, nConnects, nDisconnects>>
    /\ UNCHANGED <<streamVars, codecVars, coordVars>>

\* _init_sequence resumed by the timeout of wait_for (resp is None).  In the
\* SetPair loop `continue` goes on with the next device; anywhere else it
\* starts the next attempt, and after the last attempt ConnectionError is
\* raised out of connect().
InitTimeout ==
    /\ connPc = "init"
    /\ initFuture = "pending"
    /\ IF IsPairStep(initStep)
         THEN /\ SendAndWait(attempt, initStep + 1, Append(initLog, TimeoutEntry))
              /\ UNCHANGED connPc
         ELSE IF attempt + 1 < INIT_RETRY_COUNT
           THEN /\ SendAndWait(attempt + 1, 1, <<>>)
                /\ UNCHANGED connPc
           ELSE /\ connPc' = "failed"
                /\ initFuture' = NoFuture
                /\ initLog' = Append(initLog, TimeoutEntry)
                /\ UNCHANGED <<attempt, initStep, init1Written, onlyInit1>>
    /\ UNCHANGED <<transport, serialProtocol, connected, initialized, closing,
                   sendQueue, ackEvent, cmdInFlight, buffer, flushArmed, timers,
                   workerPc, cancelReq, discPc, rxLog, accepted, cmdWritten,
                   waitsEnded, lastWait, ackSeen, anyReply, nConnects, nDisconnects>>
    /\ UNCHANGED <<streamVars, codecVars, coordVars>>

\* ------------------------------------------------------------------------
\* data_received and _on_frame_received
\* ------------------------------------------------------------------------
\* One frame of a data_received call: where it went ("init": the response
\* future, "normal": _on_frame_received), and on the normal path whether an
\* Ack was written back, the ACK event was set, the callback was called.
RxEntry(frame, route, acked, signalled, dispatched) ==
    [frame |-> frame, route |-> route, acked |-> acked,
     signalled |-> signalled, dispatched |-> dispatched]

\* What the code does with a frame, as an entry of the trace: k is "frame"
\* (sliced off the buffer), "slot" (set as result of the response future),
\* "handler" (passed to _on_frame_received), "ack" (an Ack written back),
\* "event" (the ACK event set), "callback" (passed to the message callback)
\* or "raised" (the message callback raised an exception on it).
\* A data_received call starts with an entry "chunk" that holds the number
\* of bytes handed over, a run of _flush_buffer is an entry "flush" that
\* holds the stream position.
Ev(k, frame) == [k |-> k, f |-> frame]

IsChunkEv(e) == e.k = "chunk"
IsFrameEv(e) == e.k = "frame"
IsSlotEv(e) == e.k = "slot"
IsHandlerEv(e) == e.k = "handler"
IsCallbackEv(e) == e.k = "callback"
IsFlushEv(e) == e.k = "flush"

\* The message callback is the consumer's: the one of this model raises an
\* exception on every status response and returns normally on other frames.
CallbackRaises(frame) == is_status_response(frame)

\* Mutant of OnFrameReceived: the exception of the message callback is not
\* caught; it leaves _on_frame_received and data_received.
OnFrameReceivedUncaught(frame, st) ==
    IF is_ack(frame)
      THEN [st EXCEPT !.ack = TRUE,
                      !.seen = @ \/ frame[1] = 129,
                      !.rx = Append(@, RxEntry(frame, "normal", FALSE, TRUE, FALSE)),
                      !.tr = @ \o <<Ev("handler", frame), Ev("event", frame)>>]
      ELSE [st EXCEPT !.seen = @ \/ frame[1] = 129,
                      !.rx = Append(@, RxEntry(frame, "normal", CanWrite, FALSE,
                                               should_dispatch(frame))),
                      !.exc = should_dispatch(frame) /\ CallbackRaises(frame),
                      !.tr = @ \o <<Ev("handler", frame)>>
                               \o (IF CanWrite THEN <<Ev("ack", frame)>> ELSE <<>>)
                               \o (IF should_dispatch(frame)
                                     THEN <<Ev("callback", frame)>> ELSE <<>>)
                               \o (IF should_dispatch(frame) /\ CallbackRaises(frame)
                                     THEN <<Ev("raised", frame)>> ELSE <<>>)]

\* Mutant of OnFrameReceived: an Ack is written back for an ACK frame too.
OnFrameReceivedAcksAll(frame, st) ==
    IF is_ack(frame)
      THEN [st EXCEPT !.ack = TRUE,
                      !.seen = @ \/ frame[1] = 129,
                      !.rx = Append(@, RxEntry(frame, "normal", CanWrite, TRUE, FALSE)),
                      !.tr = @ \o <<Ev("handler", frame)>>
                               \o (IF CanWrite THEN <<Ev("ack", frame)>> ELSE <<>>)
                               \o <<Ev("event", frame)>>]
      ELSE [st EXCEPT !.seen = @ \/ frame[1] = 129,
                      !.rx = Append(@, RxEntry(frame, "normal", CanWrite, FALSE,
                                               should_dispatch(frame))),
                      !.tr = @ \o <<Ev("handler", frame)>>
                               \o (IF CanWrite THEN <<Ev("ack", frame)>> ELSE <<>>)
                               \o (IF should_dispatch(frame)
                                     THEN <<Ev("callback", frame)>> ELSE <<>>)
                               \o (IF should_dispatch(frame) /\ CallbackRaises(frame)
                                     THEN <<Ev("raised", frame)>> ELSE <<>>)]

\* _on_frame_received on the state st of one data_received call.
OnFrameReceived(frame, st) ==
    IF is_ack(frame)
      THEN [st EXCEPT !.ack = TRUE,
                      !.seen = @ \/ frame[1] = 129,
                      !.rx = Append(@, RxEntry(frame, "normal", FALSE, TRUE, FALSE)),
                      !.tr = @ \o <<Ev("handler", frame), Ev("event", frame)>>]
      ELSE [st EXCEPT !.seen = @ \/ frame[1] = 129,
                      !.rx = Append(@, RxEntry(frame, "normal", CanWrite, FALSE,
                                               should_dispatch(frame))),
                      !.tr = @ \o <<Ev("handler", frame)>>
                               \o (IF CanWrite THEN <<Ev("ack", frame)>> ELSE <<>>)
                               \o (IF should_dispatch(frame)
                                     THEN <<Ev("callback", frame)>> ELSE <<>>)
                               \o (IF should_dispatch(frame) /\ CallbackRaises(frame)
                                     THEN <<Ev("raised", frame)>> ELSE <<>>)]

\* Mutant of RouteFrame: a frame for the response future is also handled on
\* the normal path.
RouteFrameBoth(frame, st) ==
    IF st.fut = "pending"
      THEN OnFrameReceived(frame,
             [st EXCEPT !.fut = DoneFuture(frame),
                        !.ilog = Append(@, ReplyEntry),
                        !.any = TRUE,
                        !.rx = Append(@, RxEntry(frame, "init", FALSE, FALSE, FALSE)),
                        !.tr = Append(@, Ev("slot", frame))])
      ELSE OnFrameReceived(frame, st)

\* The body of the frame loop of data_received for one frame.
RouteFrame(frame, st) ==
    IF st.fut = "pending"
      THEN [st EXCEPT !.fut = DoneFuture(frame),
                      !.ilog = Append(@, ReplyEntry),
                      !.any = TRUE,
                      !.rx = Append(@, RxEntry(frame, "init", FALSE, FALSE, FALSE)),
                      !.tr = Append(@, Ev("slot", frame))]
      ELSE OnFrameReceived(frame, st)

\* Mutant of ExtractFrames: the frames of a chunk are handled newest first.
RECURSIVE ExtractFramesNewestFirst(_)
ExtractFramesNewestFirst(st) ==
    IF Len(st.buf) >= FRAME_SIZE_BYTES /\ ~st.exc
      THEN LET n == Len(st.buf) \div FRAME_SIZE_BYTES
               from == (n - 1) * FRAME_SIZE_BYTES
               frame == SubSeq(st.buf, from + 1, from + FRAME_SIZE_BYTES)
           IN ExtractFramesNewestFirst(
                RouteFrame(frame,
                    [st EXCEPT !.buf = SubSeq(@, 1, from)
                                         \o SubSeq(@, from + FRAME_SIZE_BYTES + 1, Len(@)),
                               !.tr = Append(@, Ev("frame", frame))]))
      ELSE st

\* Mutant of ExtractFrames: `if` for `while`, one frame a call at most.
ExtractFramesOnePerCall(st) ==
    IF Len(st.buf) >= FRAME_SIZE_BYTES
      THEN RouteFrame(SubSeq(st.buf, 1, FRAME_SIZE_BYTES),
                      [st EXCEPT !.buf = SubSeq(@, FRAME_SIZE_BYTES + 1, Len(@)),
                                 !.tr = Append(@, Ev("frame",
                                           SubSeq(st.buf, 1, FRAME_SIZE_BYTES)))])
      ELSE st

\* The frame loop of data_received; an exception that leaves the body of the
\* loop ends it.
RECURSIVE ExtractFrames(_)
ExtractFrames(st) ==
    IF Len(st.buf) >= FRAME_SIZE_BYTES /\ ~st.exc
      THEN ExtractFrames(
             RouteFrame(SubSeq(st.buf, 1, FRAME_SIZE_BYTES),
                        [st EXCEPT !.buf = SubSeq(@, FRAME_SIZE_BYTES + 1, Len(@)),
                                   !.tr = Append(@, Ev("frame",
                                             SubSeq(st.buf, 1, FRAME_SIZE_BYTES)))]))
      ELSE st

\* Mutant of CancelFlush: the pending timer is left to run.
CancelFlushNot(pending) == pending

\* Lines 396-398: the pending flush timer is cancelled.  While the handle
\* refers to a pending timer, that timer is the one armed by the last chunk.
CancelFlush(pending) == IF flushArmed THEN pending \ {fed} ELSE pending

\* Lines 400-412 on the data of one call.
Received(data) ==
    ExtractFrames([buf |-> buffer \o data, fut |-> initFuture,
                   ack |-> ackEvent, seen |-> ackSeen, ilog |-> initLog,
                   any |-> anyReply, rx |-> <<>>, tr |-> <<>>, exc |-> FALSE])

\* The protocol and stick fields after a data_received call that ended in
\* state st; now is the stream position, which stamps the timer it arms.
\* Lines 415-419 are not reached when an exception has left the frame loop.
ApplyReceived(st, now) ==
    /\ buffer' = st.buf
    /\ flushArmed' = (Len(st.buf) > 0 /\ ~st.exc)
    /\ timers' = IF Len(st.buf) > 0 /\ ~st.exc THEN CancelFlush(timers) \cup {now}
                 ELSE CancelFlush(timers)
    /\ initFuture' = st.fut
    /\ ackEvent' = st.ack
    /\ ackSeen' = st.seen
    /\ initLog' = st.ilog
    /\ anyReply' = st.any
    /\ UNCHANGED <<transport, serialProtocol, connected, initialized, closing,
                   sendQueue, cmdInFlight, pcVars, accepted, cmdWritten,
                   waitsEnded, lastWait, onlyInit1, init1Written, nConnects, nDisconnects>>

\* observe says whether rxLog records the call.
DataReceived(data, observe) ==
    /\ transport = "open"
    /\ serialProtocol
    /\ LET st == Received(data)
       IN /\ ApplyReceived(st, fed)
          /\ rxLog' = IF observe THEN st.rx ELSE <<>>
    /\ UNCHANGED <<streamVars, codecVars, coordVars>>

\* data_received with the next n bytes of Stream; the trace records the call.
StreamReceived(n) ==
    /\ transport = "open"
    /\ serialProtocol
    /\ fed + n <= Len(Stream)
    /\ LET st == Received(SubSeq(Stream, fed + 1, fed + n))
       IN /\ ApplyReceived(st, fed + n)
          /\ trace' = Append(trace, Ev("chunk", <<n>>)) \o st.tr
    /\ fed' = fed + n
    /\ rxLog' = <<>>
    /\ UNCHANGED <<codecVars, coordVars>>

\* Mutant of FlushFires: the oldest buffered byte alone is dropped.
FlushFiresDropsOne(t) ==
    /\ t \in timers
    /\ timers' = timers \ {t}
    /\ flushArmed' = (flushArmed /\ t /= fed)
    /\ buffer' = IF buffer = <<>> THEN <<>> ELSE Tail(buffer)
    /\ UNCHANGED <<stickVars, initFuture, pcVars, obsVars>>

\* _flush_buffer, run by a timer armed in data_received.
FlushFires(t) ==
    /\ t \in timers
    /\ timers' = timers \ {t}
    /\ flushArmed' = (flushArmed /\ t /= fed)
    /\ buffer' = <<>>
    /\ UNCHANGED <<stickVars, initFuture, pcVars, obsVars>>

FlushBuffer ==
    /\ \E t \in timers : FlushFires(t)
    /\ UNCHANGED <<streamVars, codecVars, coordVars>>

\* _flush_buffer in a run whose trace records the stream.
StreamFlush ==
    /\ \E t \in timers : FlushFires(t)
    /\ trace' = Append(trace, Ev("flush", <<fed>>))
    /\ UNCHANGED <<fed, codecVars, coordVars>>


\* ------------------------------------------------------------------------
\* send_command
\* ------------------------------------------------------------------------
SendCommand(frame) ==
    /\ Len(accepted) < MaxSends
    /\ IF connected
         THEN /\ sendQueue' = Append(sendQueue, frame)
              /\ accepted' = Append(accepted, frame)
         ELSE UNCHANGED <<sendQueue, accepted>>   \* raises ConnectionError
    /\ UNCHANGED <<transport, serialProtocol, connected, initialized, closing,
                   ackEvent, cmdInFlight, protoVars, pcVars, initLog, rxLog,
                   cmdWritten, waitsEnded, lastWait, ackSeen, anyReply, onlyInit1,
                   init1Written, nConnects, nDisconnects>>
    /\ UNCHANGED <<streamVars, codecVars, coordVars>>

\* ------------------------------------------------------------------------
\* _process_send_queue
\* ------------------------------------------------------------------------
WorkerAlive == workerPc \in {"start", "get", "wait"}

\* Mutant of QueueGet: the newest frame is taken.
QueueGetNewest(queue) == queue[Len(queue)]

\* The frame the worker takes from the queue (asyncio.Queue.get: the oldest).
QueueGet(queue) == Head(queue)
QueueRest(queue) == Tail(queue)

\* Mutant of WorkerSend: the ACK is not awaited.
WorkerSendNoWait ==
    /\ sendQueue' = QueueRest(sendQueue)
    /\ ackEvent' = FALSE
    /\ cmdInFlight' = TRUE
    /\ cmdWritten' = IF CanWrite THEN Append(cmdWritten, QueueGet(sendQueue))
                     ELSE cmdWritten
    /\ ackSeen' = FALSE
    /\ workerPc' = "get"

\* Mutant of WorkerSend: the ACK event is not cleared before the write.
WorkerSendNoClear ==
    /\ sendQueue' = QueueRest(sendQueue)
    /\ ackEvent' = ackEvent
    /\ cmdInFlight' = TRUE
    /\ cmdWritten' = IF CanWrite THEN Append(cmdWritten, QueueGet(sendQueue))
                     ELSE cmdWritten
    /\ ackSeen' = FALSE
    /\ workerPc' = "wait"

\* Lines 292-300: the frame just taken is written and its ACK is awaited.
WorkerSend ==
    /\ sendQueue' = QueueRest(sendQueue)
    /\ ackEvent' = FALSE
    /\ cmdInFlight' = TRUE
    /\ cmdWritten' = IF CanWrite THEN Append(cmdWritten, QueueGet(sendQueue))
                     ELSE cmdWritten
    /\ ackSeen' = FALSE
    /\ workerPc' = "wait"

\* The loop from its head (line 286) to its next suspension.
WorkerLoop(inFlight) ==
    IF closing
      THEN /\ workerPc' = "done"
           /\ cmdInFlight' = inFlight
           /\ UNCHANGED <<sendQueue, ackEvent, cmdWritten, ackSeen>>
      ELSE IF sendQueue = <<>>
        THEN /\ workerPc' = "get"
             /\ cmdInFlight' = inFlight
             /\ UNCHANGED <<sendQueue, ackEvent, cmdWritten, ackSeen>>
        ELSE WorkerSend

\* First run of the task created by connect().
WorkerStart ==
    /\ workerPc = "start"
    /\ ~cancelReq
    /\ WorkerLoop(cmdInFlight)
    /\ UNCHANGED <<transport, serialProtocol, connected, initialized, closing,
                   protoVars, connPc, attempt, initStep, cancelReq, discPc,
                   initLog, rxLog, accepted, waitsEnded, lastWait, anyReply,
                   onlyInit1, init1Written, nConnects, nDisconnects>>
    /\ UNCHANGED <<streamVars, codecVars, coordVars>>

\* The task suspended in queue.get() is woken by a put.
WorkerGet ==
    /\ workerPc = "get"
    /\ ~cancelReq
    /\ sendQueue /= <<>>
    /\ WorkerSend
    /\ UNCHANGED <<transport, serialProtocol, connected, initialized, closing,
                   protoVars, connPc, attempt, initStep, cancelReq, discPc,
                   initLog, rxLog, accepted, waitsEnded, lastWait, anyReply,
                   onlyInit1, init1Written, nConnects, nDisconnects>>
    /\ UNCHANGED <<streamVars, codecVars, coordVars>>

\* The wait of line 300 is over (how == "ack" or "timeout"): lines 308-309
\* and the loop again.
WorkerWaitOver(how) ==
    /\ waitsEnded' = waitsEnded + 1
    /\ lastWait' = how
    /\ WorkerLoop(FALSE)
    /\ UNCHANGED <<transport, serialProtocol, connected, initialized, closing,
                   protoVars, connPc, attempt, initStep, cancelReq, discPc,
                   initLog, rxLog, accepted, anyReply, onlyInit1, init1Written,
                   nConnects, nDisconnects>>
    /\ UNCHANGED <<streamVars, codecVars, coordVars>>

\* wait_for returns: the ACK event was set.
WorkerAck ==
    /\ workerPc = "wait"
    /\ ~cancelReq
    /\ ackEvent
    /\ WorkerWaitOver("ack")

\* Mutant of WorkerTimeout: the wait has no timeout.
WorkerTimeoutNever ==
    /\ FALSE
    /\ UNCHANGED vars

\* wait_for raises TimeoutError after ACK_TIMEOUT without the event.
WorkerTimeout ==
    /\ workerPc = "wait"
    /\ ~cancelReq
    /\ ~ackEvent
    /\ WorkerWaitOver("timeout")

\* CancelledError reaches the task: caught at queue.get() (the task returns),
\* not caught at wait_for (lines 308-309 are skipped), or thrown into a task
\* that has not run yet.
WorkerCancelled ==
    /\ WorkerAlive
    /\ cancelReq
    /\ cancelReq' = FALSE
    /\ workerPc' = IF workerPc = "get" THEN "done" ELSE "cancelled"
    /\ UNCHANGED <<stickVars, protoVars, connPc, attempt, initStep, discPc,
                   obsVars>>
    /\ UNCHANGED <<streamVars, codecVars, coordVars>>

\* ------------------------------------------------------------------------
\* disconnect
\* ------------------------------------------------------------------------
\* Lines 134-138.
CloseTransport ==
    /\ transport' = "none"
    /\ connected' = FALSE
    /\ discPc' = "idle"

\* Mutant of DisconnectCall: the queue task is cancelled but not awaited.
DisconnectCallNoAwait ==
    /\ discPc = "idle"
    /\ connPc /= "init"
    /\ nDisconnects < MaxDisconnects
    /\ nDisconnects' = nDisconnects + 1
    /\ closing' = TRUE
    /\ initialized' = FALSE
    /\ cancelReq' = (cancelReq \/ WorkerAlive)
    /\ CloseTransport
    /\ UNCHANGED <<serialProtocol, sendQueue, ackEvent, cmdInFlight, protoVars,
                   connPc, attempt, initStep, workerPc, initLog, rxLog,
                   accepted, cmdWritten, waitsEnded, lastWait, ackSeen, anyReply,
                   onlyInit1, init1Written, nConnects>>
    /\ UNCHANGED <<streamVars, codecVars, coordVars>>

\* Mutant of DisconnectCall: a queue task that has ended is cancelled and
\* awaited again.
DisconnectCallRecancels ==
    /\ discPc = "idle"
    /\ connPc /= "init"
    /\ nDisconnects < MaxDisconnects
    /\ nDisconnects' = nDisconnects + 1
    /\ closing' = TRUE
    /\ initialized' = FALSE
    /\ IF workerPc /= "none"
         THEN /\ cancelReq' = TRUE
              /\ discPc' = "awaitWorker"
              /\ UNCHANGED <<transport, connected>>
         ELSE /\ CloseTransport
              /\ UNCHANGED cancelReq
    /\ UNCHANGED <<serialProtocol, sendQueue, ackEvent, cmdInFlight, protoVars,
                   connPc, attempt, initStep, workerPc, initLog, rxLog,
                   accepted, cmdWritten, waitsEnded, lastWait, ackSeen, anyReply,
                   onlyInit1, init1Written, nConnects>>
    /\ UNCHANGED <<streamVars, codecVars, coordVars>>

\* Lines 124-130, and 134-138 too when there is no live queue task to await.
\* The owner of the stick awaits connect() before it calls disconnect()
\* (coordinator.py, tools/test_duofern.py): no connect() is running.
DisconnectCall ==
    /\ discPc = "idle"
    /\ connPc /= "init"
    /\ nDisconnects < MaxDisconnects
    /\ nDisconnects' = nDisconnects + 1
    /\ closing' = TRUE
    /\ initialized' = FALSE
    /\ IF WorkerAlive
         THEN /\ cancelReq' = TRUE
              /\ discPc' = "awaitWorker"
              /\ UNCHANGED <<transport, connected>>
         ELSE /\ CloseTransport
              /\ UNCHANGED cancelReq
    /\ UNCHANGED <<serialProtocol, sendQueue, ackEvent, cmdInFlight, protoVars,
                   connPc, attempt, initStep, workerPc, initLog, rxLog,
                   accepted, cmdWritten, waitsEnded, lastWait, ackSeen, anyReply,
                   onlyInit1, init1Written, nConnects>>
    /\ UNCHANGED <<streamVars, codecVars, coordVars>>

\* disconnect() resumed when the awaited queue task has ended.
DisconnectFinish ==
    /\ discPc = "awaitWorker"
    /\ ~WorkerAlive
    /\ CloseTransport
    /\ UNCHANGED <<serialProtocol, initialized, closing, sendQueue, ackEvent,
                   cmdInFlight, protoVars, connPc, attempt, initStep, workerPc,
                   cancelReq, obsVars>>
    /\ UNCHANGED <<streamVars, codecVars, coordVars>>

\* ------------------------------------------------------------------------
\* Specification
\* ------------------------------------------------------------------------
Next ==
    \/ ConnectOpen
    \/ InitReply
    \/ InitTimeout
    \/ \E data \in FrameChunks : DataReceived(data, FALSE)
    \/ \E frame \in CommandFrames : SendCommand(frame)
    \/ WorkerStart
    \/ WorkerGet
    \/ WorkerAck
    \/ WorkerTimeout
    \/ WorkerCancelled
    \/ DisconnectCall
    \/ DisconnectFinish

Spec == Init /\ [][Next]_vars


\* The same program with every chunking of the inbound stream (split frames,
\* the flush timer) and with rxLog recording each data_received; it makes
\* no send_command and no disconnect() calls.
NextRx ==
    \/ ConnectOpen
    \/ InitReply
    \/ InitTimeout
    \/ \E data \in Chunks : DataReceived(data, TRUE)
    \/ FlushBuffer
    \/ WorkerStart

SpecRx == Init /\ [][NextRx]_vars


\* The same program fed with Stream in chunks of every size of ChunkSizes,
\* the trace recording what becomes of every byte.  No send_command and no
\* disconnect() is called, and every frame of the stream that reaches the
\* response future does so before the reply wait times out.  The stream is
\* shorter than the handshake, so the queue task is not created.
NextStream ==
    \/ ConnectOpen
    \/ InitReply
    \/ \E n \in ChunkSizes :
          /\ fed + n <= StreamLen
          /\ Len(SelectSeq(trace, IsChunkEv)) < MaxChunks
          /\ StreamReceived(n)
    \/ StreamFlush

SpecStream == Init /\ [][NextStream]_vars


\* The stick answers the step the handshake awaits with one whole frame.
StickReplies ==
    /\ connPc = "init"
    /\ initFuture = "pending"
    /\ buffer = <<>>
    /\ DataReceived(AckIn, FALSE)

\* The same program with a handshake in which the stick answers every step
\* in time, and with Stream coming in once the handshake has completed.
NextReady ==
    \/ ConnectOpen
    \/ InitReply
    \/ StickReplies
    \/ WorkerStart
    \/ \E n \in ReadyChunkSizes :
          initialized /\ fed + n <= ReadyStreamLen /\ StreamReceived(n)
    \/ StreamFlush

SpecReady == Init /\ [][NextReady]_vars


\* The event loop runs every task that is ready and every timer that is due:
\* a step of the queue worker that stays possible is eventually taken.
Fairness ==
    /\ WF_vars(WorkerStart)
    /\ WF_vars(WorkerGet)
    /\ WF_vars(WorkerAck)
    /\ WF_vars(WorkerTimeout)

SpecLive == Spec /\ Fairness

\* ------------------------------------------------------------------------
\* Properties
\* ------------------------------------------------------------------------
IsPrefix(s, t) == Len(s) <= Len(t) /\ SubSeq(t, 1, Len(s)) = s

\* Command frames written whose ACK wait has not ended by ACK or timeout.
InFlight == Len(cmdWritten) - waitsEnded

\* C1: at most one command frame is in flight: the worker writes a command
\* frame only when the wait of every frame written before has ended, and a
\* wait ends by ACK only if a frame with byte 0 = 0x81 came in after the
\* frame was written, otherwise by the timeout.
C1_SingleInFlight ==
    /\ [](InFlight \in {0, 1})
    /\ [][/\ Len(cmdWritten') > Len(cmdWritten) =>
                /\ Len(cmdWritten') = Len(cmdWritten) + 1
                /\ waitsEnded' = Len(cmdWritten)
          /\ waitsEnded' > waitsEnded =>
                /\ waitsEnded' = waitsEnded + 1
                /\ workerPc = "wait" /\ cmdInFlight
                /\ \/ lastWait' = "ack" /\ ackSeen
                   \/ lastWait' = "timeout"]_vars

\* C1 witness: a second frame was written after the first one was ACKed,
\* and it is now the one frame in flight.
C1_Witness ==
    /\ Len(cmdWritten) = 2
    /\ waitsEnded = 1
    /\ lastWait = "ack"
    /\ workerPc = "wait"
    /\ InFlight = 1

\* C2: the queue never stalls: the k-th accepted frame is eventually written
\* whether or not any ACK arrives, unless the stick is being disconnected.
C2_NoStall ==
    \A k \in 1..MaxSends :
        (Len(accepted) >= k /\ WorkerAlive) ~> (Len(cmdWritten) >= k \/ closing)

\* C2 witness: the first frame's wait timed out without any ACK, and the
\* second frame has been written.
C2_Witness ==
    /\ Len(cmdWritten) = 2
    /\ waitsEnded = 1
    /\ lastWait = "timeout"
    /\ ~ackSeen
    /\ ~closing

\* C3: the frames written by the worker are, in order, the first frames
\* accepted by send_command; the frames not yet written are exactly the
\* queue, so none is written twice or out of order.
C3_FifoPrefix ==
    /\ IsPrefix(cmdWritten, accepted)
    /\ accepted = cmdWritten \o sendQueue

\* C3 witness: two different frames written in enqueue order, the first
\* after a timed-out wait.
C3_Witness ==
    /\ Len(cmdWritten) = 2
    /\ cmdWritten[1] /= cmdWritten[2]
    /\ cmdWritten = accepted
    /\ waitsEnded = 2
    /\ lastWait = "timeout"


\* A frame the consumer is to see: neither an ACK (byte 0 = 0x81) nor a
\* broadcast status ack (bytes 0..2 = 0x0F 0xFF 0x11).
Dispatchable(frame) ==
    /\ frame[1] /= 129
    /\ ~(frame[1] = 15 /\ frame[2] = 255 /\ frame[3] = 17)

\* C4: on the normal dispatch path the message callback is called for a
\* frame exactly when should_dispatch is true of it, which is exactly when
\* the frame is neither an ACK nor a broadcast status ack; an ACK sets the
\* queue's ACK event instead, and no other frame does.
C4_DispatchGate ==
    \A i \in 1..Len(rxLog) :
        rxLog[i].route = "normal" =>
            /\ rxLog[i].dispatched = should_dispatch(rxLog[i].frame)
            /\ should_dispatch(rxLog[i].frame) = Dispatchable(rxLog[i].frame)
            /\ rxLog[i].signalled = (rxLog[i].frame[1] = 129)
            /\ rxLog[i].signalled => ackEvent

\* C4 witness: after the handshake one chunk held a Status frame, which was
\* dispatched, and an ACK, which set the ACK event and was not dispatched.
C4_Witness ==
    /\ connPc = "ready"
    /\ Len(rxLog) = 2
    /\ rxLog[1].route = "normal" /\ rxLog[2].route = "normal"
    /\ is_status_response(rxLog[1].frame) /\ rxLog[1].dispatched
    /\ is_ack(rxLog[2].frame) /\ ~rxLog[2].dispatched /\ rxLog[2].signalled


\* ------------------------------------------------------------------------
\* The handshake, read off initLog
\* ------------------------------------------------------------------------
\* The step frames of one attempt in the order of the documented sequence.
ExpectedOrder ==
    <<build_init1, build_init2, build_set_dongle(SystemCode), build_init3>>
    \o [i \in 1..Len(PairedDevices) |-> build_set_pair(i - 1, PairedDevices[i])]
    \o <<build_init_end, build_status_request_broadcast>>

IsStepEntry(e) == e.kind = "step"
IsAckEntry(e) == e.kind = "ack"
IsTimeoutEntry(e) == e.kind = "timeout"

StepFramesOf(log) ==
    LET steps == SelectSeq(log, IsStepEntry)
    IN  [i \in 1..Len(steps) |-> steps[i].frame]

NoTimeoutIn(log) == SelectSeq(log, IsTimeoutEntry) = <<>>

\* The log ends with the reply to StatusRequestBroadcast and its Ack.
EndsWithBroadcastReply(log) ==
    /\ Len(log) >= 3
    /\ log[Len(log) - 2] = [kind |-> "step", frame |-> build_status_request_broadcast]
    /\ log[Len(log) - 1].kind = "reply"
    /\ log[Len(log)].kind = "ack"

\* The step whose reply is awaited times out in this step of the program.
TimeoutStep ==
    /\ connPc = "init"
    /\ initFuture = "pending"
    /\ <<attempt, initStep, connPc>>' /= <<attempt, initStep, connPc>>

\* The frame whose reply is awaited (the last entry while the future pends).
AwaitedFrame == initLog[Len(initLog)].frame
SetPairsKind == 3

\* C5: in an attempt without timeout the step frames are written in the
\* documented order; a step frame is written only after the reply (or the
\* timeout) of the step before it; the stick becomes initialized only with
\* the reply to StatusRequestBroadcast, after the whole sequence.
C5_HandshakeOrder ==
    /\ [](/\ (connPc \in {"init", "ready"} /\ NoTimeoutIn(initLog)) =>
                IsPrefix(StepFramesOf(initLog), ExpectedOrder)
          /\ \A i \in 2..Len(initLog) :
                initLog[i].kind = "step" =>
                   \/ initLog[i - 1].kind \in {"reply", "timeout"}
                   \/ initLog[i - 1].kind = "ack" /\ initLog[i - 2].kind = "reply"
          /\ connPc = "ready" =>
                /\ EndsWithBroadcastReply(initLog)
                /\ NoTimeoutIn(initLog) => StepFramesOf(initLog) = ExpectedOrder)
    /\ [][(~initialized /\ initialized') =>
             /\ connPc = "init" /\ connPc' = "ready"
             /\ initFuture = "done"
             /\ EndsWithBroadcastReply(initLog')]_vars

\* C5 witness: the first attempt got every reply and the stick is Ready.
C5_Witness ==
    /\ connPc = "ready"
    /\ initialized
    /\ attempt = 0
    /\ NoTimeoutIn(initLog)
    /\ StepFramesOf(initLog) = ExpectedOrder
    /\ Len(PairedDevices) >= 2

\* C6: the handshake writes exactly one Ack right after the reply to
\* SetDongle and to every later step, before the next step frame; none
\* after the replies to Init1 and Init2, and none after a timeout.
C6_HandshakeAcks ==
    /\ \A i \in 1..Len(initLog) :
          /\ initLog[i].kind = "ack" =>
                /\ i >= 3
                /\ initLog[i - 1].kind = "reply"
                /\ initLog[i - 2].kind = "step"
                /\ initLog[i - 2].frame \notin {build_init1, build_init2}
          /\ (initLog[i].kind = "reply" /\ i < Len(initLog)) =>
                /\ i >= 2
                /\ initLog[i - 1].kind = "step"
                /\ IF initLog[i - 1].frame \in {build_init1, build_init2}
                     THEN initLog[i + 1].kind = "step"
                     ELSE /\ initLog[i + 1].kind = "ack"
                          /\ i + 2 <= Len(initLog) => initLog[i + 2].kind = "step"
          /\ (initLog[i].kind = "timeout" /\ i < Len(initLog)) =>
                initLog[i + 1].kind = "step"
    /\ connPc = "ready" => initLog[Len(initLog)].kind = "ack"

\* C6 witness: a Ready handshake in which every step was replied: one Ack
\* for every step but Init1 and Init2.
C6_Witness ==
    /\ connPc = "ready"
    /\ NoTimeoutIn(initLog)
    /\ Len(SelectSeq(initLog, IsAckEntry)) = Len(ExpectedOrder) - 2
    /\ Len(SelectSeq(initLog, IsAckEntry)) >= 5

\* C7: when the reply wait of a step other than SetPair times out, the next
\* step frame written is Init1 of the next attempt; after the last attempt
\* nothing more is written by the handshake.
C7_TimeoutRestarts ==
    [][(TimeoutStep /\ AwaitedFrame[1] /= SetPairsKind) =>
          IF attempt + 1 < INIT_RETRY_COUNT
            THEN /\ connPc' = "init"
                 /\ attempt' = attempt + 1
                 /\ initFuture' = "pending"
                 /\ initLog' = <<[kind |-> "step", frame |-> build_init1]>>
            ELSE /\ connPc' = "failed"
                 /\ StepFramesOf(initLog') = StepFramesOf(initLog)
                 /\ SelectSeq(initLog', IsAckEntry) = SelectSeq(initLog, IsAckEntry)]_vars

\* C7 witness: an attempt that had got replies (so frames after Init1 were
\* written) timed out, and the next attempt has just written Init1.
C7_Witness ==
    /\ connPc = "init"
    /\ attempt >= 1
    /\ anyReply
    /\ ~onlyInit1
    /\ initFuture = "pending"
    /\ initLog = <<[kind |-> "step", frame |-> build_init1]>>

\* C8: one connect() writes at most INIT_RETRY_COUNT Init1 frames; while no
\* reply has come every attempt consists of its Init1 frame only, the
\* handshake cannot become Ready, and when it has failed exactly
\* INIT_RETRY_COUNT Init1 frames and nothing else were written.
C8_NoReplyRetries ==
    /\ init1Written <= INIT_RETRY_COUNT
    /\ (~anyReply /\ connPc = "init") =>
          /\ initLog = <<[kind |-> "step", frame |-> build_init1]>>
          /\ init1Written = attempt + 1
          /\ onlyInit1
    /\ (~anyReply /\ nConnects > 0) => connPc \in {"init", "failed"}
    /\ (~anyReply /\ connPc = "failed") =>
          /\ init1Written = INIT_RETRY_COUNT
          /\ onlyInit1
          /\ initLog = <<[kind |-> "step", frame |-> build_init1],
                         [kind |-> "timeout", frame |-> <<>>]>>

\* C8 witness: a handshake that never got a reply has failed.
C8_Witness ==
    /\ connPc = "failed"
    /\ ~anyReply
    /\ init1Written = INIT_RETRY_COUNT
    /\ onlyInit1

\* C9: when the reply wait of a SetPair step times out, the handshake stays
\* in the same attempt, writes no Ack and writes next the frame that follows
\* in the documented order (the next SetPair, or InitEnd).
C9_PairTimeoutSkips ==
    [][(TimeoutStep /\ AwaitedFrame[1] = SetPairsKind) =>
          /\ connPc' = "init"
          /\ attempt' = attempt
          /\ init1Written' = init1Written
          /\ initFuture' = "pending"
          /\ initLog' = initLog \o
               <<[kind |-> "timeout", frame |-> <<>>],
                 [kind |-> "step",
                  frame |-> ExpectedOrder[Len(StepFramesOf(initLog)) + 1]]>>]_vars

\* C9 witness: the stick is Ready after a first attempt in which every
\* SetPair timed out.
C9_Witness ==
    /\ connPc = "ready"
    /\ initialized
    /\ connected
    /\ attempt = 0
    /\ Len(PairedDevices) >= 2
    /\ Len(SelectSeq(initLog, IsTimeoutEntry)) = Len(PairedDevices)

\* The `connected` property of the stick.
ReportsConnected == connected /\ initialized

\* C10: when the last attempt times out connect() fails; as long as the
\* stick is in that state it does not report connected, has no running
\* queue worker, and no command frame is written to the transport.
C10_FailedUnusable ==
    /\ [](connPc = "failed" =>
             /\ ~ReportsConnected
             /\ ~WorkerAlive
             /\ initFuture = "none")
    /\ [][(TimeoutStep /\ AwaitedFrame[1] /= SetPairsKind
             /\ attempt + 1 = INIT_RETRY_COUNT) =>
             /\ connPc' = "failed"
             /\ workerPc' = workerPc
             /\ ~initialized']_vars
    /\ [][connPc = "failed" => cmdWritten' = cmdWritten]_vars

\* C10 witness: the first connect() of the stick has failed; a frame was
\* accepted by send_command and stays queued, unwritten.
C10_Witness ==
    /\ connPc = "failed"
    /\ nConnects = 1
    /\ workerPc = "none"
    /\ sendQueue /= <<>>
    /\ cmdWritten = <<>>

\* ------------------------------------------------------------------------
\* Reception, read off the trace
\* ------------------------------------------------------------------------

\* The entries one step appends to the trace.
NewEvents == SubSeq(trace', Len(trace) + 1, Len(trace'))

\* A chunk of the stream is handed to data_received in this step.
ChunkStep == fed' > fed

\* C11: every frame completed by a chunk is delivered to exactly one of the
\* response future and _on_frame_received: to the future if and only if the
\* future is pending when the frame is completed (it was pending at the
\* call and no earlier frame of the chunk has filled it).
C11_OneDestination ==
    [][ChunkStep =>
         LET new == NewEvents
         IN  /\ Len(SelectSeq(new, IsFrameEv))
                  = (Len(buffer) + (fed' - fed)) \div FRAME_SIZE_BYTES
             /\ \A i \in 1..Len(new) :
                  /\ new[i].k = "frame" =>
                       /\ i < Len(new)
                       /\ new[i + 1].f = new[i].f
                       /\ new[i + 1].k =
                            IF /\ initFuture = "pending"
                               /\ SelectSeq(SubSeq(new, 1, i), IsSlotEv) = <<>>
                              THEN "slot" ELSE "handler"
                  /\ new[i].k \in {"slot", "handler"} =>
                       /\ i > 1
                       /\ new[i - 1].k = "frame"
             /\ Len(SelectSeq(new, IsSlotEv)) + Len(SelectSeq(new, IsHandlerEv))
                  = Len(SelectSeq(new, IsFrameEv))
             /\ SelectSeq(new, IsSlotEv) /= <<>> => initFuture' = "done"
             /\ (initFuture = "pending" /\ SelectSeq(new, IsFrameEv) /= <<>>)
                  => (new[2].k = "frame" /\ new[3].k = "slot")]_vars

\* C11 witness: while the handshake awaited the reply to Init1 two frames
\* came in; the first went to the response future, the second, completed
\* before the handshake ran again, to _on_frame_received.
C11_Witness ==
    /\ connPc = "init"
    /\ initStep = 1
    /\ initFuture = "done"
    /\ fed = 2 * FRAME_SIZE_BYTES
    /\ SelectSeq(trace, IsFrameEv) = <<Ev("frame", StreamFrame(1)),
                                       Ev("frame", StreamFrame(2))>>
    /\ SelectSeq(trace, IsSlotEv) = <<Ev("slot", StreamFrame(1))>>
    /\ SelectSeq(trace, IsHandlerEv) = <<Ev("handler", StreamFrame(2))>>

FramesOf(events) == [i \in 1..Len(events) |-> events[i].f]

\* The frames the framer sliced off, and those passed to the callback.
EmittedFrames == FramesOf(SelectSeq(trace, IsFrameEv))
CallbackFrames == FramesOf(SelectSeq(trace, IsCallbackEv))

\* The whole 22-byte slices of the bytes from + 1 .. to of Stream, in order.
SlicesOf(from, to) ==
    [k \in 1..((to - from) \div FRAME_SIZE_BYTES) |->
        SubSeq(Stream, from + (k - 1) * FRAME_SIZE_BYTES + 1,
                       from + k * FRAME_SIZE_BYTES)]

NoFlushIn(events) == SelectSeq(events, IsFlushEv) = <<>>

\* C12: once the handshake has completed, the frames passed to the message
\* callback are, in order and each once, the complete inbound frames that
\* are neither ACKs nor broadcast-status-acks; while no partial bytes were
\* flushed the complete frames are the 22-byte slices of the stream in
\* arrival order.
C12_CallbackOrder ==
    /\ CallbackFrames = SelectSeq(EmittedFrames, Dispatchable)
    /\ SelectSeq(trace, IsSlotEv) = <<>>
    /\ Len(SelectSeq(trace, IsHandlerEv)) = Len(EmittedFrames)
    /\ NoFlushIn(trace) =>
         /\ EmittedFrames = SlicesOf(0, fed)
         /\ CallbackFrames = SelectSeq(SlicesOf(0, fed), Dispatchable)

\* C12 witness: after the handshake a Status, an ACK, a broadcast-status-ack
\* and a PairResponse frame came in; the callback got the first and the last.
C12_Witness ==
    /\ initialized
    /\ fed = 4 * FRAME_SIZE_BYTES
    /\ NoFlushIn(trace)
    /\ Len(EmittedFrames) = 4
    /\ CallbackFrames = <<StreamFrame(1), StreamFrame(4)>>
    /\ is_status_response(StreamFrame(1))
    /\ is_ack(StreamFrame(2))
    /\ is_broadcast_status_ack(StreamFrame(3))
    /\ is_pair_response(StreamFrame(4))

\* ------------------------------------------------------------------------
\* Lifecycle
\* ------------------------------------------------------------------------
\* C13: send_command puts a frame on the queue only when the stick reports
\* connected (the `connected` property: _connected and _initialized); in
\* every other state it leaves the queue unchanged.
C13_SendNeedsConnected ==
    [][Len(accepted') > Len(accepted) =>
          /\ ReportsConnected
          /\ sendQueue' = Append(sendQueue, accepted'[Len(accepted')])]_vars

\* What send_command does: it puts the frame on the queue exactly when
\* _connected is set, whatever the state of the handshake.
C13_SendNeedsPortOpen ==
    [][Len(accepted') > Len(accepted) =>
          /\ connected
          /\ sendQueue' = Append(sendQueue, accepted'[Len(accepted')])]_vars

\* A frame was accepted after the handshake had failed.
C13_AcceptedWhenFailed ==
    /\ connPc = "failed"
    /\ ~ReportsConnected
    /\ nConnects = 1
    /\ sendQueue /= <<>>
    /\ Len(accepted) = 1
    /\ init1Written = INIT_RETRY_COUNT
    /\ ~anyReply
\* C14: disconnect() requests the cancellation of a live queue task and
\* closes the transport only when the task has ended; from the start of
\* disconnect() on the worker takes no frame off the queue and writes none;
\* while the transport is closed nothing is written.
C14_DisconnectOrder ==
    /\ [](discPc = "awaitWorker" => (transport = "open" /\ closing))
    /\ [][(~closing /\ closing' /\ WorkerAlive) =>
             (cancelReq' /\ discPc' = "awaitWorker" /\ transport' = transport)]_vars
    /\ [][(transport = "open" /\ transport' = "none") =>
             (~WorkerAlive /\ ~WorkerAlive' /\ closing')]_vars
    /\ [][closing =>
             (cmdWritten' = cmdWritten /\ Len(sendQueue') >= Len(sendQueue))]_vars
    /\ [][(transport = "none" /\ transport' = "none") =>
             (cmdWritten' = cmdWritten /\ initLog' = initLog)]_vars

\* C14 witness: disconnect() has returned; it cancelled the worker in its
\* ACK wait for the first frame, and the second frame is still queued.
C14_Witness ==
    /\ nDisconnects = 1
    /\ discPc = "idle"
    /\ transport = "none"
    /\ ~connected
    /\ workerPc = "cancelled"
    /\ Len(cmdWritten) = 1
    /\ Len(sendQueue) = 1
    /\ waitsEnded = 0
\* C15: disconnect() called on a stick that is not connected (never
\* connected, or disconnected before) returns at once, requests no
\* cancellation and closes nothing; after an earlier disconnect() it changes
\* no field of the stick, on a new stick it only sets _closing.
C15_DisconnectIdempotent ==
    [][(nDisconnects' > nDisconnects /\ ~connected) =>
          /\ transport = "none" /\ transport' = "none"
          /\ closing' /\ ~initialized' /\ ~connected'
          /\ discPc' = "idle"
          /\ cancelReq' = cancelReq
          /\ workerPc' = workerPc
          /\ <<serialProtocol, initialized, sendQueue, ackEvent, cmdInFlight,
               protoVars, pcVars>>'
               = <<serialProtocol, initialized, sendQueue, ackEvent, cmdInFlight,
                   protoVars, pcVars>>
          /\ IF closing
               THEN stickVars' = stickVars
               ELSE nConnects = 0]_vars

\* C15 witness: a connected stick whose worker was running was disconnected,
\* and disconnect() was then called a second time.
C15_Witness ==
    /\ nConnects = 1
    /\ nDisconnects = 2
    /\ connPc = "ready"
    /\ workerPc = "cancelled"
    /\ discPc = "idle"
    /\ transport = "none"
    /\ closing /\ ~connected /\ ~initialized

\* ------------------------------------------------------------------------
\* The framer, read off the trace
\* ------------------------------------------------------------------------
\* The chunk sizes of the data_received calls so far, in order.
ChunkSizesSeen == [i \in 1..Len(SelectSeq(trace, IsChunkEv)) |->
                      SelectSeq(trace, IsChunkEv)[i].f[1]]

\* The bytes of Stream after position from that make no whole frame.
RestOf(from, to) ==
    SubSeq(Stream, to - ((to - from) % FRAME_SIZE_BYTES) + 1, to)

\* C16: with no flush so far, the frames sliced off are the consecutive
\* 22-byte slices of the bytes received, in order, and the buffer holds the
\* last (bytes received mod 22) of them, whatever the chunks were.
C16_FramesAreSlices ==
    NoFlushIn(trace) =>
        /\ EmittedFrames = SlicesOf(0, fed)
        /\ Len(EmittedFrames) = fed \div FRAME_SIZE_BYTES
        /\ buffer = RestOf(0, fed)
        /\ Len(buffer) = fed % FRAME_SIZE_BYTES

\* C16 witness: 44 bytes came as a chunk of 10 and a chunk of 34 and gave
\* the two frames of the stream in order.
C16_Witness ==
    /\ ChunkSizesSeen = <<10, 34>>
    /\ NoFlushIn(trace)
    /\ EmittedFrames = <<StreamFrame(1), StreamFrame(2)>>
    /\ buffer = <<>>
\* The stream position at the last run of _flush_buffer (0 without one).
LastFlushAt ==
    LET fl == SelectSeq(trace, IsFlushEv)
    IN  IF fl = <<>> THEN 0 ELSE fl[Len(fl)].f[1]

\* The trace after its last "flush" entry (all of it without one).
RECURSIVE SinceLastFlush(_)
SinceLastFlush(events) ==
    IF events = <<>> \/ events[Len(events)].k = "flush" THEN <<>>
    ELSE Append(SinceLastFlush(SubSeq(events, 1, Len(events) - 1)),
                events[Len(events)])

\* A run of _flush_buffer is this step.
FlushStep == Len(SelectSeq(trace', IsFlushEv)) > Len(SelectSeq(trace, IsFlushEv))

\* C17: a run of _flush_buffer leaves the buffer empty, so the frames sliced
\* off after it are the 22-byte slices of the bytes that came after it and
\* hold none of the bytes buffered before.
C17_FlushDiscardsAll ==
    /\ [](/\ FramesOf(SelectSeq(SinceLastFlush(trace), IsFrameEv))
               = SlicesOf(LastFlushAt, fed)
          /\ buffer = RestOf(LastFlushAt, fed))
    /\ [][FlushStep => (buffer' = <<>> /\ fed' = fed)]_vars

\* C17 witness: 22 bytes, then 5 bytes, then the flush, then 22 more bytes:
\* two frames in all, the second one the 22 bytes that came after the flush.
C17_Witness ==
    /\ ChunkSizesSeen = <<22, 5, 22>>
    /\ LastFlushAt = 27
    /\ trace[Len(trace)].k /= "flush"
    /\ SelectSeq(SinceLastFlush(trace), IsChunkEv) = <<Ev("chunk", <<22>>)>>
    /\ EmittedFrames = <<StreamFrame(1), SubSeq(Stream, 28, 49)>>
    /\ buffer = <<>>
\* C18: between the calls the buffer holds fewer than 22 bytes and a flush
\* timer is pending exactly when the buffer is not empty; the timer pending
\* after a chunk is the one that chunk armed (any earlier one is cancelled);
\* buffered bytes are discarded only by the timer armed by the latest chunk,
\* that is after a flush interval in which no chunk came.
C18_FlushTimer ==
    /\ [](/\ Len(buffer) < FRAME_SIZE_BYTES
          /\ (timers /= {}) <=> (buffer /= <<>>)
          /\ flushArmed <=> (timers /= {})
          /\ Cardinality(timers) <= 1)
    /\ [][ChunkStep => timers' = IF buffer' /= <<>> THEN {fed'} ELSE {}]_vars
    /\ [][(buffer /= <<>> /\ buffer' = <<>> /\ fed' = fed /\ nConnects' = nConnects) =>
             (FlushStep /\ timers = {fed} /\ timers' = {})]_vars

\* C18 witness: 5 bytes came, then 5 more, which re-armed the timer; then
\* the timer ran and discarded the 10 bytes.
C18_Witness ==
    /\ ChunkSizesSeen = <<5, 5>>
    /\ trace = <<Ev("chunk", <<5>>), Ev("chunk", <<5>>), Ev("flush", <<10>>)>>
    /\ buffer = <<>>
    /\ timers = {}
    /\ ~flushArmed

\* ------------------------------------------------------------------------
\* The encoder called: one action per DuoFernEncoder method.  The method
\* runs once on the arguments of encCall and encOut keeps what it yielded.
\* ------------------------------------------------------------------------
ReturnedWarning(result, warned) ==
    /\ ~encOut.done
    /\ encOut' = [done |-> TRUE, result |-> result, warned |-> warned]
    /\ UNCHANGED <<stickVars, protoVars, pcVars, obsVars, streamVars, encCall,
                   decVars, coordVars>>

Returned(result) == ReturnedWarning(result, FALSE)

EncInit1 ==
    /\ encCall.op = "build_init1"
    /\ Returned(build_init1)

EncInit2 ==
    /\ encCall.op = "build_init2"
    /\ Returned(build_init2)

EncSetDongle ==
    /\ encCall.op = "build_set_dongle"
    /\ Returned(build_set_dongle(encCall.system_code))

EncInit3 ==
    /\ encCall.op = "build_init3"
    /\ Returned(build_init3)

EncSetPair ==
    /\ encCall.op = "build_set_pair"
    /\ Returned(build_set_pair(encCall.index, encCall.device_code))

EncInitEnd ==
    /\ encCall.op = "build_init_end"
    /\ Returned(build_init_end)

EncAck ==
    /\ encCall.op = "build_ack"
    /\ Returned(build_ack)

EncStatusRequestBroadcast ==
    /\ encCall.op = "build_status_request_broadcast"
    /\ Returned(build_status_request_broadcast)

EncStatusRequest ==
    /\ encCall.op = "build_status_request"
    /\ Returned(build_status_request(encCall.device_code, encCall.system_code,
                                     encCall.status_type))

EncCoverCommand ==
    /\ encCall.op = "build_cover_command"
    /\ ReturnedWarning(
          build_cover_command(encCall.command, encCall.device_code,
                              encCall.system_code, encCall.position,
                              encCall.timer, encCall.channel),
          build_cover_command_warns(encCall.command, encCall.position,
                                    encCall.channel))

EncStartPair ==
    /\ encCall.op = "build_start_pair"
    /\ Returned(build_start_pair)

EncStopPair ==
    /\ encCall.op = "build_stop_pair"
    /\ Returned(build_stop_pair)

EncStartUnpair ==
    /\ encCall.op = "build_start_unpair"
    /\ Returned(build_start_unpair)

EncStopUnpair ==
    /\ encCall.op = "build_stop_unpair"
    /\ Returned(build_stop_unpair)

NextEnc ==
    \/ EncInit1
    \/ EncInit2
    \/ EncSetDongle
    \/ EncInit3
    \/ EncSetPair
    \/ EncInitEnd
    \/ EncAck
    \/ EncStatusRequestBroadcast
    \/ EncStatusRequest
    \/ EncCoverCommand
    \/ EncStartPair
    \/ EncStopPair
    \/ EncStartUnpair
    \/ EncStopUnpair

SpecEnc == InitEnc /\ [][NextEnc]_vars

\* ------------------------------------------------------------------------
\* The layout table: the 0-based offsets a message kind assigns.
\* ------------------------------------------------------------------------
AssignedOffsets(call) ==
    CASE call.op \in {"build_init1", "build_init2", "build_ack",
                      "build_start_pair", "build_stop_pair",
                      "build_start_unpair", "build_stop_unpair"} -> {0}
      [] call.op \in {"build_init3", "build_init_end"} -> {0, 1}
      [] call.op = "build_set_dongle" -> 0..5
      [] call.op = "build_set_pair" -> 0..4
      [] call.op \in {"build_status_request_broadcast",
                      "build_status_request"} -> (0..3) \cup (18..21)
      [] call.op = "build_cover_command" ->
            (0..3) \cup (12..21)
            \cup (IF call.command \in {CoverUp, CoverDown, CoverPosition}
                  THEN {4} ELSE {})
            \cup (IF call.command = CoverPosition THEN {5} ELSE {})

\* The integer arguments of the call that are stored as they are fit a byte.
StoredAsBytes(call) ==
    CASE call.op = "build_status_request" -> call.status_type \in 0..255
      [] call.op = "build_cover_command" -> call.channel \in 0..255
      [] OTHER -> TRUE

PositionByte(position) ==
    IF position = None THEN 0
    ELSE IF position[1] < 0 THEN 0
    ELSE IF position[1] > 100 THEN 100
    ELSE position[1]

C21_PositionClamped ==
    (encOut.done /\ encCall.op = "build_cover_command"
        /\ encCall.command = CoverPosition /\ encCall.channel \in 0..255) =>
        LET frame == encOut.result
            position == encCall.position
        IN  /\ frame /= ValueError
            /\ frame[6] \in 0..100
            /\ position = None => (frame[6] = 0 /\ encOut.warned)
            /\ position /= None =>
                  /\ ~encOut.warned
                  /\ position[1] \in 0..100 => frame[6] = position[1]
                  /\ position[1] > 100 => frame[6] = 100
                  /\ position[1] < 0 => frame[6] = 0
            /\ position = <<37>> => frame[6] = 37
            /\ position = <<150>> => frame[6] = 100
            /\ position = <<0 - 5>> => frame[6] = 0

\* A Position command asking for 150 has been encoded with 100 in byte 5.
C21_Witness ==
    /\ encOut.done
    /\ encCall.op = "build_cover_command"
    /\ encCall.command = CoverPosition
    /\ encCall.position = <<150>>
    /\ encCall.channel = 1
    /\ encOut.result /= ValueError
    /\ encOut.result[6] = 100
    /\ ~encOut.warned

\* A Position command without a position has been encoded: byte 5 is 0 and
\* the warning is logged.
C21_WitnessWarned ==
    /\ encOut.done
    /\ encCall.op = "build_cover_command"
    /\ encCall.command = CoverPosition
    /\ encCall.position = None
    /\ encOut.result /= ValueError
    /\ encOut.result[6] = 0
    /\ encOut.warned

\* C22: the frame of build_status_request does not depend on the system
\* code: whatever system code is passed with the same device code and status
\* type, the frame is the same; its bytes 4..17 are zero, bytes 18..20 are the
\* device code and byte 21 is 0x01.
C22_StatusRequestNoSystemCode ==
    (encOut.done /\ encCall.op = "build_status_request") =>
        LET frame == encOut.result
        IN  /\ \A other \in EncIds :
                  build_status_request(encCall.device_code, other,
                                       encCall.status_type) = frame
            /\ frame /= ValueError =>
                  /\ \A i \in 4..17 : frame[i + 1] = 0
                  /\ <<frame[19], frame[20], frame[21]>> = encCall.device_code
                  /\ frame[22] = 1

\* A status request has been built with a system code that has no zero byte:
\* bytes 15..17, where a command frame carries it, are zero.
C22_Witness ==
    /\ encOut.done
    /\ encCall.op = "build_status_request"
    /\ encCall.system_code = SystemCode
    /\ \A i \in 1..3 : SystemCode[i] /= 0
    /\ encCall.device_code = <<255, 255, 255>>
    /\ encCall.status_type = 15
    /\ encOut.result /= ValueError
    /\ \A i \in 15..17 : encOut.result[i + 1] = 0
    /\ encOut.result[19] = 255

\* ------------------------------------------------------------------------
\* The decoder and DuoFernId called: one action per method.  The method
\* runs on the argument of decCall and decOut keeps its outcome.
\* ------------------------------------------------------------------------
Decoded(result) ==
    /\ ~decOut.done
    /\ decOut' = [done |-> TRUE, calls |-> decOut.calls + 1, result |-> result,
                  before |-> decOut.result]
    /\ UNCHANGED <<stickVars, protoVars, pcVars, obsVars, streamVars, encVars,
                   decCall, coordVars>>

DecIsAck ==
    /\ decCall.op = "is_ack"
    /\ Decoded(Decoder_is_ack(decCall.data))

DecClassifyMessage ==
    /\ decCall.op = "classify_message"
    /\ Decoded(classify_message(decCall.data))

DecExtractDeviceCode ==
    /\ decCall.op = "extract_device_code"
    /\ Decoded(extract_device_code(decCall.data))

DecExtractDeviceCodeFromStatus ==
    /\ decCall.op = "extract_device_code_from_status"
    /\ Decoded(extract_device_code_from_status(decCall.data))

DecIsStatusResponse ==
    /\ decCall.op = "is_status_response"
    /\ Decoded(Decoder_is_status_response(decCall.data))

DecIsPairResponse ==
    /\ decCall.op = "is_pair_response"
    /\ Decoded(Decoder_is_pair_response(decCall.data))

DecIsUnpairResponse ==
    /\ decCall.op = "is_unpair_response"
    /\ Decoded(is_unpair_response(decCall.data))

DecIsBroadcastStatusAck ==
    /\ decCall.op = "is_broadcast_status_ack"
    /\ Decoded(Decoder_is_broadcast_status_ack(decCall.data))

DecParseStatusType40 ==
    /\ decCall.op = "parse_status_type40"
    /\ Decoded(parse_status_type40(decCall.data))

DecParseStatus ==
    /\ decCall.op = "parse_status"
    /\ Decoded(parse_status(decCall.data))

DecShouldDispatch ==
    /\ decCall.op = "should_dispatch"
    /\ Decoded(Decoder_should_dispatch(decCall.data))

\* DuoFernId(raw=...)
IdConstruct ==
    /\ decCall.op = "DuoFernId"
    /\ Decoded(DuoFernId(decCall.raw))

\* DuoFernId.from_hex(hex_str)
IdFromHex ==
    /\ decCall.op = "from_hex"
    /\ Decoded(from_hex(decCall.hex_str))

\* DuoFernId.from_hex(DuoFernId(raw).hex)
IdHexFromHex ==
    /\ decCall.op = "hex"
    /\ Decoded(from_hex(hex(DuoFernId(decCall.raw).value)))

\* The next status frame arrives and is parsed in its turn.
FollowUp ==
    /\ decOut.done
    /\ decOut.calls < MaxDecCalls
    /\ decCall.op = "parse_status"
    /\ decCall.data.type = "bytes"
    /\ \E c \in FollowUpCalls : c.data.val = decCall.data.val
    /\ decCall' \in FollowUpCalls
    /\ decOut' = [decOut EXCEPT !.done = FALSE]
    /\ UNCHANGED <<stickVars, protoVars, pcVars, obsVars, streamVars, encVars,
                   coordVars>>

NextDec ==
    \/ DecIsAck
    \/ DecClassifyMessage
    \/ DecExtractDeviceCode
    \/ DecExtractDeviceCodeFromStatus
    \/ DecIsStatusResponse
    \/ DecIsPairResponse
    \/ DecIsUnpairResponse
    \/ DecIsBroadcastStatusAck
    \/ DecParseStatusType40
    \/ DecParseStatus
    \/ DecShouldDispatch
    \/ IdConstruct
    \/ IdFromHex
    \/ IdHexFromHex
    \/ FollowUp

SpecDec == InitDec /\ [][NextDec]_vars

\* The call of decCall has been made with a 22-byte frame.
DecodedFrame(op) ==
    /\ decOut.done
    /\ decCall.op = op
    /\ decCall.data.type = "bytes"
    /\ Len(decCall.data.val) = FRAME_SIZE_BYTES

\* C23: for a 22-byte frame whose byte 0 is 0x81 extract_device_code yields
\* the identifier made of bytes 18..20, and for every other byte 0 (0x0F
\* included) the one made of bytes 15..17; an identifier placed there is
\* recovered as it is.
C23_ExtractDeviceCode ==
    DecodedFrame("extract_device_code") =>
        LET frame == decCall.data.val
        IN  /\ decOut.result.raised = "none"
            /\ frame[1] = 129 =>
                  decOut.result.value.raw = <<frame[19], frame[20], frame[21]>>
            /\ frame[1] /= 129 =>
                  decOut.result.value.raw = <<frame[16], frame[17], frame[18]>>
            /\ frame \in PredFrames =>
                  decOut.result.value.raw =
                      IF frame[1] = 129 THEN DecIdOther ELSE DecIdCover

\* The identifier of an ACK frame has been extracted from bytes 18..20, which
\* differ from bytes 15..17.
C23_Witness ==
    /\ DecodedFrame("extract_device_code")
    /\ decCall.data.val[1] = 129
    /\ decOut.result.raised = "none"
    /\ decOut.result.value.raw = DecIdOther
    /\ DecIdOther /= DecIdCover
    /\ SubSeq(decCall.data.val, 16, 18) = DecIdCover

\* The identifier of a status frame has been extracted from bytes 15..17.
C23_WitnessStatus ==
    /\ DecodedFrame("extract_device_code")
    /\ decCall.data.val[1] = 15
    /\ decOut.result.raised = "none"
    /\ decOut.result.value.raw = DecIdCover

\* The hexadecimal digits of either case.
HexChars == {HexLower[k] : k \in 1..16} \cup {HexUpper[k] : k \in 1..16}

SixHexChars(str) == Len(str) = 6 /\ \A i \in 1..6 : str[i] \in HexChars

\* C24: for every 3-byte raw value the identifier written as hex and parsed
\* again has the same raw bytes; from_hex raises an error unless the string
\* is exactly 6 hexadecimal characters (and yields an identifier when it is);
\* the constructor raises for a raw value that has not 3 bytes, so every
\* identifier that exists has raw length 3.
C24_IdentifierRoundTrip ==
    decOut.done =>
        /\ decCall.op = "hex" =>
              /\ decOut.result.raised = "none"
              /\ decOut.result.value.raw = decCall.raw
        /\ decCall.op = "from_hex" =>
              /\ ~SixHexChars(decCall.hex_str) =>
                    decOut.result.raised = "ValueError"
              /\ SixHexChars(decCall.hex_str) => decOut.result.raised = "none"
        /\ decCall.op = "DuoFernId" =>
              /\ Len(decCall.raw) /= 3 => decOut.result.raised = "ValueError"
              /\ Len(decCall.raw) = 3 => decOut.result = Ok([raw |-> decCall.raw])
        /\ (decCall.op \in {"hex", "from_hex", "DuoFernId",
                            "extract_device_code",
                            "extract_device_code_from_status"}
            /\ decOut.result.raised = "none") =>
              Len(decOut.result.value.raw) = 3

\* An identifier with bytes below 16 has gone through hex and from_hex and
\* come back with the same raw bytes.
C24_Witness ==
    /\ decOut.done
    /\ decCall.op = "hex"
    /\ decCall.raw = <<15, 160, 10>>
    /\ hex([raw |-> decCall.raw]) = <<"0", "F", "A", "0", "0", "A">>
    /\ decOut.result = Ok([raw |-> <<15, 160, 10>>])

\* from_hex has refused a string of 6 characters that holds whitespace.
C24_WitnessRefused ==
    /\ decOut.done
    /\ decCall.op = "from_hex"
    /\ decCall.hex_str = <<"6", "F", " ", "1", "A", " ">>
    /\ decOut.result.raised = "ValueError"

\* The methods of DuoFernDecoder.
DecoderOps == DecPredOps \cup DecParseOps

\* The argument is bytes of a length other than 22 or a string of a length
\* other than 44.
WrongLength(data) ==
    \/ data.type = "bytes" /\ Len(data.val) /= FRAME_SIZE_BYTES
    \/ data.type = "str" /\ Len(data.val) /= FRAME_SIZE_HEX

\* C25: every decoder method raises an error for bytes whose length is not
\* exactly 22 and for a string whose length is not 44: no result is returned
\* for such a value, cut or filled up or otherwise.
C25_WrongLengthRejected ==
    (decOut.done /\ decCall.op \in DecoderOps /\ WrongLength(decCall.data)) =>
        decOut.result = Raised("ValueError")

\* parse_status has been called with the first 21 bytes of a status response
\* and has raised.
C25_Witness ==
    /\ decOut.done
    /\ decCall.op = "parse_status"
    /\ decCall.data = Bytes(SubSeq(GoodFrame, 1, 21))
    /\ decOut.result = Raised("ValueError")

\* Beside the claim: a string of 44 characters that holds whitespace decodes
\* to fewer than 22 bytes, and is_ack answers for the one byte it holds.
C25_ShortFrameAnswered ==
    /\ decOut.done
    /\ decCall.op = "is_ack"
    /\ decCall.data.type = "str"
    /\ decCall.data.val = <<"8", "1">> \o Spaces(42)
    /\ decOut.result = Ok(TRUE)

\* word p of a frame: the bytes at the 0-based offsets 3+p and 4+p, the first
\* one high.
WordOf(frame, p) == frame[4 + p] * 256 + frame[5 + p]

\* The bits from..to of a word.
BitsOf(word, from, to) == (word \div (2 ^ from)) % (2 ^ (to - from + 1))

\* A nibble written as a decimal number.
NibbleText(n) == IF n < 10 THEN <<HexLower[n + 1]>> ELSE <<"1", HexLower[n - 9]>>

\* C26: for every 22-byte status response (bytes 0..2 = 0F FF 0F) format-21
\* parsing yields each field as the bits from..to of word p = frame[3+p]*256
\* + frame[4+p]: time_automatic word 0 bit 0, sun_automatic word 0 bit 2,
\* dusk_automatic word 0 bit 3, manual_mode word 0 bit 7, dawn_automatic word
\* 1 bit 3, ventilating_position word 2 bits 0..6, ventilating_mode word 2
\* bit 7, sun_position word 6 bits 0..6, sun_mode word 6 bit 7, position
\* word 7 bits 0..6, version the two nibbles of byte 12 as "high.low"; the
\* fields are determined by these bits alone.
C26_Format21Fields ==
    (DecodedFrame("parse_status_type40")
        /\ SubSeq(decCall.data.val, 1, 3) = StatusHeader) =>
        LET frame == decCall.data.val
            Word(p) == WordOf(frame, p)
        IN  /\ decOut.result.raised = "none"
            /\ decOut.result.value =
                  [position |-> <<BitsOf(Word(7), 0, 6)>>,
                   moving |-> "stop",
                   time_automatic |-> <<BitsOf(Word(0), 0, 0) = 1>>,
                   sun_automatic |-> <<BitsOf(Word(0), 2, 2) = 1>>,
                   dusk_automatic |-> <<BitsOf(Word(0), 3, 3) = 1>>,
                   manual_mode |-> <<BitsOf(Word(0), 7, 7) = 1>>,
                   dawn_automatic |-> <<BitsOf(Word(1), 3, 3) = 1>>,
                   ventilating_position |-> <<BitsOf(Word(2), 0, 6)>>,
                   ventilating_mode |-> <<BitsOf(Word(2), 7, 7) = 1>>,
                   sun_position |-> <<BitsOf(Word(6), 0, 6)>>,
                   sun_mode |-> <<BitsOf(Word(6), 7, 7) = 1>>,
                   version |-> <<NibbleText(frame[13] \div 16)
                                 \o <<".">> \o NibbleText(frame[13] % 16)>>]
            \* the low bytes of the words 0, 1, 2, 6, 7 and byte 12 decide
            /\ decOut.result.value.position = <<frame[12] % 128>>
            /\ decOut.result.value.sun_position = <<frame[11] % 128>>
            /\ decOut.result.value.ventilating_position = <<frame[7] % 128>>
            /\ decOut.result.value.time_automatic = <<frame[5] % 2 = 1>>
            /\ decOut.result.value.dawn_automatic = <<(frame[6] \div 8) % 2 = 1>>

\* A status response whose bytes are all ones but byte 11, which holds 42,
\* has been parsed: position 42, sun position 127, every flag set, version
\* "15.15".
C26_Witness ==
    /\ DecodedFrame("parse_status_type40")
    /\ decCall.data.val = StatusFrame(StatusHeader, 255, DecIdCover, 11, 42)
    /\ decOut.result.raised = "none"
    /\ decOut.result.value.position = <<42>>
    /\ decOut.result.value.sun_position = <<127>>
    /\ decOut.result.value.manual_mode = <<TRUE>>
    /\ decOut.result.value.version = <<(<<"1", "5", ".", "1", "5">>)>>

\* A status response whose payload is zero but byte 4, which holds 0x81, has
\* been parsed: time_automatic and manual_mode are set, nothing else is.
C26_WitnessFlags ==
    /\ DecodedFrame("parse_status_type40")
    /\ decCall.data.val = StatusFrame(StatusHeader, 0, DecIdCover, 4, 129)
    /\ decOut.result.raised = "none"
    /\ decOut.result.value.time_automatic = <<TRUE>>
    /\ decOut.result.value.manual_mode = <<TRUE>>
    /\ decOut.result.value.sun_automatic = <<FALSE>>
    /\ decOut.result.value.position = <<0>>
    /\ decOut.result.value.version = <<(<<"0", ".", "0">>)>>

\* The statement of C27 as it is worded: parse_status of any 22-byte frame
\* whose bytes 0..2 are 0F FF 0F yields as position the value v held by bits
\* 0..6 of word 7 (42 yields 42).
C27_PositionOfAnyStatusFrame ==
    (DecodedFrame("parse_status")
        /\ SubSeq(decCall.data.val, 1, 3) = StatusHeader) =>
        /\ decOut.result.raised = "none"
        /\ decOut.result.value.position
              = <<BitsOf(WordOf(decCall.data.val, 7), 0, 6)>>

\* C27, amended: parse_status of a 22-byte frame whose bytes 0..2 are 0F FF
\* 0F and whose byte 15 is the device type of a cover yields as position the
\* value v held by bits 0..6 of word 7 (42 yields 42); when byte 15 is no
\* cover type the position is not set.
C27_PositionOfCoverStatusFrame ==
    (DecodedFrame("parse_status")
        /\ SubSeq(decCall.data.val, 1, 3) = StatusHeader) =>
        /\ decOut.result.raised = "none"
        /\ decCall.data.val[16] \in COVER_DEVICE_TYPES =>
              /\ decOut.result.value.position
                    = <<BitsOf(WordOf(decCall.data.val, 7), 0, 6)>>
              /\ decOut.result.value.position = <<decCall.data.val[12] % 128>>
        /\ decCall.data.val[16] \notin COVER_DEVICE_TYPES =>
              decOut.result.value.position = None

\* parse_status has read position 42 from the status response of a cover.
C27_Witness ==
    /\ DecodedFrame("parse_status")
    /\ decCall.data.val = GoodFrame
    /\ GoodFrame[12] = 42
    /\ GoodFrame[16] \in COVER_DEVICE_TYPES
    /\ decOut.result.raised = "none"
    /\ decOut.result.value.position = <<42>>

\* The case the wording of C27 misses: the same frame with the identifier of
\* a device that is no cover has been parsed and no position is set.
C27_NoPositionForOtherDevice ==
    /\ DecodedFrame("parse_status")
    /\ decCall.data.val = StatusFrame(StatusHeader, 0, DecIdOther, 11, 42)
    /\ decOut.result = Ok(DeviceStatus)

\* Whether an optional position is unset or within 0..100.
Within100(position) == position = None \/ position[1] \in 0..100

\* The statement of C28: position, sun_position and ventilating_position of
\* every DeviceStatus that status parsing yields for a 22-byte frame lie
\* within 0..100, and so does the cover position 100 - position reported
\* to the consumer.
C28_PositionsWithin100 ==
    ((DecodedFrame("parse_status") \/ DecodedFrame("parse_status_type40"))
        /\ decOut.result.raised = "none") =>
        /\ Within100(decOut.result.value.position)
        /\ Within100(decOut.result.value.sun_position)
        /\ Within100(decOut.result.value.ventilating_position)
        /\ Within100(current_cover_position(decOut.result.value))

\* What the code does keep: the three positions are 7-bit values.
C28_PositionsWithin127 ==
    ((DecodedFrame("parse_status") \/ DecodedFrame("parse_status_type40"))
        /\ decOut.result.raised = "none") =>
        \A position \in {decOut.result.value.position,
                         decOut.result.value.sun_position,
                         decOut.result.value.ventilating_position} :
            position = None \/ position[1] \in 0..127

\* The status response of a cover with 0x7F in byte 11 has been parsed:
\* position 127, reported to the consumer as -27.
C28_PositionAbove100 ==
    /\ DecodedFrame("parse_status")
    /\ decCall.data.val = StatusFrame(StatusHeader, 0, DecIdCover, 11, 127)
    /\ decOut.result.raised = "none"
    /\ decOut.result.value.position = <<127>>
    /\ current_cover_position(decOut.result.value) = <<0 - 27>>

\* C29: the decoder never infers a moving direction: for every 22-byte frame,
\* whatever its status bits, the DeviceStatus that status parsing returns has
\* moving = "stop".
C29_MovingAlwaysStop ==
    (DecodedFrame("parse_status") \/ DecodedFrame("parse_status_type40")) =>
        /\ decOut.result.raised = "none"
        /\ decOut.result.value.moving = "stop"

\* A status response of a cover with the moving bit (word 0, bit 0) set has
\* been parsed by parse_status and moving is "stop".
C29_Witness ==
    /\ DecodedFrame("parse_status")
    /\ decCall.data.val = StatusFrame(StatusHeader, 0, DecIdCover, 4, 129)
    /\ BitsOf(WordOf(decCall.data.val, 0), 0, 0) = 1
    /\ decOut.result.raised = "none"
    /\ decOut.result.value.time_automatic = <<TRUE>>
    /\ decOut.result.value.moving = "stop"

\* C30: parse_status of a 22-byte frame whose byte 15 (the device type of the
\* identifier at bytes 15..17) is no cover type returns the default status
\* (no position, flag or version set, moving "stop") and raises nothing,
\* whatever the frame holds and whatever was parsed before it.
C30_DefaultForOtherDevices ==
    (DecodedFrame("parse_status")
        /\ decCall.data.val[16] \notin COVER_DEVICE_TYPES) =>
        /\ decOut.result = Ok(DeviceStatus)
        /\ decOut.result.value.position = None
        /\ decOut.result.value.version = None
        /\ decOut.result.value.moving = "stop"

\* After the status response of a cover, parsed with position 42, the status
\* response of another device with set status bits has been parsed and has
\* yielded the default status.
C30_Witness ==
    /\ DecodedFrame("parse_status")
    /\ decOut.calls = 2
    /\ decOut.before.raised = "none"
    /\ decOut.before.value.position = <<42>>
    /\ decCall.data.val = StatusFrame(StatusHeader, 255, DecIdOther, 11, 127)
    /\ decOut.result = Ok(DeviceStatus)
\* ------------------------------------------------------------------------
\* Message kinds: the stick is connected while frames of one kind come in,
\* and classify_message is called on the frame that comes in.
\* ------------------------------------------------------------------------
\* Frames of every byte 0, with the bytes 1 and 2 the dispatch filter tests.
KindFrames ==
    {PredFrame(b0, b1, b2) : b0 \in 0..255, b1 \in {0, 255}, b2 \in {0, 17}}

KindCalls ==
    {[op |-> "classify_message", data |-> Bytes(f)] : f \in KindFrames}

InitKinds ==
    /\ InitStick
    /\ encCall = NoCall
    /\ encOut = NotRun
    /\ decCall \in KindCalls
    /\ decOut = NotDecoded

\* data_received with the frame as one chunk; rxLog records the call.
KindReceived ==
    /\ decCall.op = "classify_message"
    /\ DataReceived(decCall.data.val, TRUE)

NextKinds ==
    \/ ConnectOpen
    \/ InitReply
    \/ KindReceived
    \/ WorkerStart
    \/ DecClassifyMessage

SpecKinds == InitKinds /\ [][NextKinds]_vars

\* The 14 values of byte 0 that MessageType enumerates.
KnownKinds == {1, 3, 4, 5, 6, 7, 8, 10, 13, 14, 15, 16, 20, 129}

\* C31: classify_message never fails on a 22-byte frame: it returns the
\* MessageType member of byte 0 when byte 0 is one of the 14 enumerated
\* values and byte 0 itself as a number otherwise; and a frame with an
\* unrecognized byte 0 that reaches _on_frame_received is acknowledged and
\* passed to the message callback.
C31_UnknownKindKept ==
    /\ Cardinality(KnownKinds) = 14
    /\ (decOut.done /\ decCall.op = "classify_message") =>
         LET byte0 == decCall.data.val[1]
         IN  /\ decOut.result.raised = "none"
             /\ IF byte0 \in KnownKinds
                  THEN decOut.result.value =
                         [enum |-> "MessageType", name |-> MessageTypeNames[byte0],
                          value |-> byte0]
                  ELSE decOut.result.value = byte0
    /\ \A i \in 1..Len(rxLog) :
         (rxLog[i].route = "normal" /\ rxLog[i].frame[1] \notin KnownKinds) =>
             /\ rxLog[i].dispatched
             /\ rxLog[i].acked
             /\ ~rxLog[i].signalled

\* A frame with byte 0 = 0xAB came in after the handshake and reached the
\* message callback, and classify_message has returned 0xAB for it.
C31_Witness ==
    /\ initialized
    /\ decOut.done
    /\ decCall.data.val[1] = 171
    /\ decOut.result = Ok(171)
    /\ rxLog /= <<>>
    /\ rxLog[1].route = "normal"
    /\ rxLog[1].frame[1] = 171
    /\ rxLog[1].dispatched

\* classify_message has returned the member STATUS for a frame with byte 0 = 0x0F.
C31_WitnessKnown ==
    /\ decOut.done
    /\ decCall.op = "classify_message"
    /\ decCall.data.val[1] = 15
    /\ decOut.result = Ok([enum |-> "MessageType", name |-> "STATUS", value |-> 15])
\* ------------------------------------------------------------------------
\* The normal dispatch path
\* ------------------------------------------------------------------------
\* The entries of the trace of kind k that hold the frame.
EventsOf(k, frame) ==
    LET Match(e) == e.k = k /\ e.f = frame
    IN  SelectSeq(trace, Match)

\* C32: on the normal dispatch path, with the transport open, every frame
\* that is not an ACK has exactly one Ack written back, right when it is
\* handled and before it is passed to the message callback; a broadcast
\* status ack is acknowledged and not dispatched; an ACK frame has no Ack
\* written back.
C32_AckBeforeDispatch ==
    \A i \in 1..Len(trace) :
        IsHandlerEv(trace[i]) =>
            LET frame == trace[i].f
            IN  IF frame[1] = 129
                  THEN /\ EventsOf("ack", frame) = <<>>
                       /\ EventsOf("callback", frame) = <<>>
                  ELSE /\ Len(EventsOf("ack", frame)) = 1
                       /\ i < Len(trace)
                       /\ trace[i + 1] = Ev("ack", frame)
                       /\ \A j \in 1..Len(trace) :
                            trace[j] = Ev("callback", frame) => j = i + 2
                       /\ is_broadcast_status_ack(frame) =>
                            EventsOf("callback", frame) = <<>>
                       /\ Dispatchable(frame) =>
                            Len(EventsOf("callback", frame)) = 1

\* A status response, an ACK and a broadcast status ack were handled on the
\* normal path: the first was acknowledged and dispatched, the second was
\* not acknowledged, the third was acknowledged and not dispatched.
C32_Witness ==
    /\ initialized
    /\ CanWrite
    /\ EventsOf("handler", StreamFrame(1)) /= <<>>
    /\ EventsOf("ack", StreamFrame(1)) /= <<>>
    /\ EventsOf("callback", StreamFrame(1)) /= <<>>
    /\ EventsOf("handler", StreamFrame(2)) /= <<>>
    /\ EventsOf("ack", StreamFrame(2)) = <<>>
    /\ EventsOf("handler", StreamFrame(3)) /= <<>>
    /\ EventsOf("ack", StreamFrame(3)) /= <<>>
    /\ EventsOf("callback", StreamFrame(3)) = <<>>
\* ------------------------------------------------------------------------
\* The queue worker and inbound ACKs: the handshake is answered in time,
\* then the chunks of FrameChunks come in at any moment while commands are
\* enqueued and sent; rxLog keeps what the last data_received did.
\* ------------------------------------------------------------------------
NextAcks ==
    \/ ConnectOpen
    \/ InitReply
    \/ StickReplies
    \/ \E data \in FrameChunks : initialized /\ DataReceived(data, TRUE)
    \/ \E frame \in CommandFrames : SendCommand(frame)
    \/ WorkerStart
    \/ WorkerGet
    \/ WorkerAck
    \/ WorkerTimeout

SpecAcks == Init /\ [][NextAcks]_vars

\* C33: an ACK frame that came in while no command was in flight does not
\* acknowledge a later command: while the worker waits, the ACK event is set
\* only if an ACK frame came in after the command was written, and a wait
\* ends by acknowledgment only then.
C33_StaleAckIgnored ==
    /\ []((workerPc = "wait" /\ ackEvent) => ackSeen)
    /\ [][(waitsEnded' = waitsEnded + 1 /\ lastWait' = "ack") =>
              (workerPc = "wait" /\ ackEvent /\ ackSeen)]_vars
    /\ [][Len(cmdWritten') > Len(cmdWritten) => (~ackEvent' /\ ~ackSeen')]_vars

\* The last frame that came in is an ACK; it came in before the first
\* command was written, and the wait for that command ended by the timeout.
C33_Witness ==
    /\ rxLog = <<RxEntry(AckIn, "normal", FALSE, TRUE, FALSE)>>
    /\ Len(cmdWritten) = 1
    /\ waitsEnded = 1
    /\ lastWait = "timeout"
    /\ ~ackEvent
\* ------------------------------------------------------------------------
\* Commands enqueued while the handshake runs
\* ------------------------------------------------------------------------
\* C34: no frame accepted by send_command is written before the handshake
\* has reached Ready: the queue task is created only at the step that makes
\* the handshake succeed, a command frame is written only in the Ready state,
\* the frames accepted during the first handshake all stay in the queue, and
\* what is written is always the next frames in enqueue order.
C34_HeldUntilReady ==
    /\ [](workerPc = "none" => cmdWritten = <<>>)
    /\ []((connPc = "init" /\ nConnects = 1) =>
              (cmdWritten = <<>> /\ sendQueue = accepted /\ workerPc = "none"))
    /\ [][(workerPc' = "start" /\ workerPc /= "start") =>
              (connPc = "init" /\ connPc' = "ready" /\ initialized')]_vars
    /\ [][Len(cmdWritten') > Len(cmdWritten) =>
              (/\ connPc = "ready"
               /\ cmdWritten' = Append(cmdWritten, Head(sendQueue))
               /\ IsPrefix(cmdWritten', accepted))]_vars

\* Two different frames were accepted while the handshake awaits the reply
\* of its last step: both are in the queue and nothing has been written.
C34_Witness ==
    /\ connPc = "init"
    /\ initStep = LastStep
    /\ Len(accepted) = 2
    /\ accepted[1] /= accepted[2]
    /\ sendQueue = accepted
    /\ cmdWritten = <<>>

\* After the first handshake both frames have been written in enqueue order.
C34_WitnessWritten ==
    /\ connPc = "ready"
    /\ nConnects = 1
    /\ nDisconnects = 0
    /\ Len(cmdWritten) = 2
    /\ cmdWritten = accepted
    /\ cmdWritten[1] /= cmdWritten[2]
\* ------------------------------------------------------------------------
\* Inbound frames while the handshake runs
\* ------------------------------------------------------------------------
\* C35: from the start of the handshake until it is Ready or Failed no
\* inbound frame is handled on the normal dispatch path: no frame of a
\* data_received call reaches _on_frame_received, so none is passed to the
\* message callback, none has an Ack written back, and the ACK event of the
\* queue stays clear.
C35_HandshakeKeepsFrames ==
    connPc = "init" =>
        /\ ~ackEvent
        /\ \A i \in 1..Len(rxLog) :
             /\ rxLog[i].route = "init"
             /\ ~rxLog[i].acked
             /\ ~rxLog[i].signalled
             /\ ~rxLog[i].dispatched

\* Beside the claim: while the handshake awaits the reply of its first step
\* a chunk of two frames has come in; the first went to the response future,
\* the second set the ACK event of the queue.
C35_AckEventDuringHandshake ==
    /\ connPc = "init"
    /\ initStep = 1
    /\ initFuture = "done"
    /\ rxLog = <<RxEntry(StatusIn, "init", FALSE, FALSE, FALSE),
                 RxEntry(AckIn, "normal", FALSE, TRUE, FALSE)>>
    /\ ackEvent

\* Beside the claim: a frame that came in after the reply and before the
\* handshake ran again was acknowledged and passed to the message callback.
C35_CallbackDuringHandshake ==
    /\ connPc = "init"
    /\ initFuture = "done"
    /\ rxLog = <<RxEntry(StatusIn, "normal", TRUE, FALSE, TRUE)>>
\* ------------------------------------------------------------------------
\* The handshake alone: replies and timeouts in every pattern, frames coming
\* in at any moment; rxLog keeps what the last data_received did.  Every
\* wait of _send_and_wait ends: by its reply when one has come in, by the
\* timeout of wait_for otherwise.
\* ------------------------------------------------------------------------
NextInit ==
    \/ ConnectOpen
    \/ InitReply
    \/ InitTimeout
    \/ \E data \in FrameChunks : DataReceived(data, TRUE)
    \/ WorkerStart

SpecInit ==
    /\ Init
    /\ [][NextInit]_vars
    /\ WF_vars(InitReply)
    /\ WF_vars(InitTimeout)

\* C36: the handshake terminates: connect() reaches Ready or Failed, within
\* INIT_RETRY_COUNT attempts of at most 6 + N send-and-wait steps each (N
\* paired devices); when it has ended the response future of the protocol is
\* unset, and every frame that comes in afterwards goes to
\* _on_frame_received.
C36_HandshakeTerminates ==
    /\ (connPc = "init") ~> (connPc \in {"ready", "failed"})
    /\ [](connPc = "init" =>
            /\ attempt \in 0..(INIT_RETRY_COUNT - 1)
            /\ initStep \in 1..(6 + Len(PairedDevices))
            /\ Len(StepFramesOf(initLog)) <= 6 + Len(PairedDevices))
    /\ [](init1Written <= INIT_RETRY_COUNT)
    /\ [](connPc \in {"ready", "failed"} => initFuture = NoFuture)
    /\ [][(connPc \in {"ready", "failed"} /\ rxLog' /= rxLog) =>
              \A i \in 1..Len(rxLog') : rxLog'[i].route = "normal"]_vars

\* The handshake has failed at its last attempt after replies in the
\* attempts before, and a frame that came in afterwards was handled on the
\* normal path.
C36_Witness ==
    /\ connPc = "failed"
    /\ anyReply
    /\ init1Written = INIT_RETRY_COUNT
    /\ initFuture = NoFuture
    /\ rxLog = <<RxEntry(StatusIn, "normal", TRUE, FALSE, TRUE)>>

\* The handshake has succeeded in its last attempt with each of its
\* 6 + N steps sent.
C36_WitnessReady ==
    /\ connPc = "ready"
    /\ attempt = INIT_RETRY_COUNT - 1
    /\ Len(StepFramesOf(initLog)) = 6 + Len(PairedDevices)
    /\ initFuture = NoFuture
\* ------------------------------------------------------------------------
\* After disconnect()
\* ------------------------------------------------------------------------
\* disconnect() has been called and has returned, and no connect() has been
\* made since.
DisconnectReturned ==
    /\ nDisconnects > 0
    /\ discPc = "idle"
    /\ ~connected

\* C37: after disconnect() has returned no command is marked in flight and
\* the stick reports not connected, also when disconnect() was called while
\* the worker was waiting for the ACK of a command.
C37_CleanAfterDisconnect ==
    DisconnectReturned => (~cmdInFlight /\ ~ReportsConnected)

\* Beside the claim: after disconnect() has returned the stick reports not
\* connected.
C37_NotConnectedAfterDisconnect ==
    DisconnectReturned => ~ReportsConnected

\* Beside the claim: disconnect() has returned after cancelling the worker
\* in its wait for an ACK, and the in-flight flag is still set.
C37_InFlightAfterDisconnect ==
    /\ DisconnectReturned
    /\ workerPc = "cancelled"
    /\ Len(cmdWritten) = 1
    /\ waitsEnded = 0
    /\ cmdInFlight
\* ------------------------------------------------------------------------
\* connect() after disconnect()
\* ------------------------------------------------------------------------
\* A connect() made after a disconnect() has succeeded, and no disconnect()
\* has been called since.
Reconnected ==
    /\ nDisconnects > 0
    /\ connPc = "ready"
    /\ initialized
    /\ connected
    /\ discPc = "idle"

\* C38: after disconnect() and a successful connect() on the same stick the
\* queue works again: every frame send_command has accepted is eventually
\* written to the transport, unless disconnect() is called again first.
C38_QueueWorksAfterReconnect ==
    \A k \in 1..MaxSends :
        (Reconnected /\ Len(accepted) >= k) ~>
            (Len(cmdWritten) >= k \/ ~Reconnected)

\* Beside the claim: after the reconnect the queue task has ended without
\* taking the frame that waits in the queue, because _closing is still set.
C38_WorkerGoneAfterReconnect ==
    /\ Reconnected
    /\ closing
    /\ workerPc = "done"
    /\ sendQueue /= <<>>
    /\ cmdWritten = <<>>

\* Beside the claim: once disconnect() has been called, no command frame is
\* written any more.
C38_NoWriteAfterDisconnect ==
    [][nDisconnects > 0 => cmdWritten' = cmdWritten]_vars
\* ------------------------------------------------------------------------
\* A message callback that raises
\* ------------------------------------------------------------------------
IsRaisedEv(e) == e.k = "raised"
IsAckEv(e) == e.k = "ack"
NotAck(frame) == frame[1] /= 129

\* C39: an exception of the message callback is contained.  It is raised
\* after the frame was handled and its Ack written; and once it has been
\* raised frame processing is as ever: no complete frame is left in the
\* buffer, every frame sliced off is handled, every frame that is no ACK is
\* acknowledged, the dispatchable ones reach the callback in arrival order,
\* and the flush timer is armed exactly while partial bytes are buffered.
C39_CallbackErrorContained ==
    /\ \A i \in 1..Len(trace) :
         /\ IsRaisedEv(trace[i]) =>
              /\ i >= 4
              /\ trace[i - 1] = Ev("callback", trace[i].f)
              /\ trace[i - 2] = Ev("ack", trace[i].f)
              /\ trace[i - 3] = Ev("handler", trace[i].f)
         /\ (IsCallbackEv(trace[i]) /\ CallbackRaises(trace[i].f)) =>
              /\ i < Len(trace)
              /\ trace[i + 1] = Ev("raised", trace[i].f)
    /\ SelectSeq(trace, IsRaisedEv) /= <<>> =>
         /\ Len(buffer) < FRAME_SIZE_BYTES
         /\ FramesOf(SelectSeq(trace, IsHandlerEv)) = EmittedFrames
         /\ FramesOf(SelectSeq(trace, IsAckEv)) = SelectSeq(EmittedFrames, NotAck)
         /\ CallbackFrames = SelectSeq(EmittedFrames, Dispatchable)
         /\ NoFlushIn(trace) => EmittedFrames = SlicesOf(0, fed)
         /\ (buffer /= <<>>) <=> flushArmed
         /\ timers = IF buffer /= <<>> THEN {fed} ELSE {}

\* The callback raised on the first frame of a call that completed two
\* frames; the second frame was sliced off next, and the frames after it
\* were acknowledged and the last of them dispatched.
C39_Witness ==
    /\ \E i \in 1..Len(trace) :
         /\ trace[i] = Ev("raised", StreamFrame(1))
         /\ i < Len(trace)
         /\ trace[i + 1] = Ev("frame", StreamFrame(2))
    /\ EventsOf("event", StreamFrame(2)) /= <<>>
    /\ EventsOf("ack", StreamFrame(3)) /= <<>>
    /\ EventsOf("callback", StreamFrame(4)) /= <<>>
    /\ EventsOf("raised", StreamFrame(4)) = <<>>

\* The callback has raised and the bytes of a partial frame that came in
\* afterwards are buffered with the flush timer armed.
C39_WitnessFlushArmed ==
    /\ SelectSeq(trace, IsRaisedEv) /= <<>>
    /\ fed > FRAME_SIZE_BYTES
    /\ buffer /= <<>>
    /\ flushArmed

\* ------------------------------------------------------------------------
\* The coordinator: cover commands and the optimistic moving state
\* ------------------------------------------------------------------------
\* The devices and target positions the commands are called with: a paired
\* cover, a device that is not paired, and positions below, at and above the
\* position a status frame reports.
CoordDevices == {[raw |-> DeviceList[1]], [raw |-> DeviceList[NumPaired + 1]]}
CoordPositions == {0, 42, 100}

\* The frames the coordinator's commands may put in the queue.
MaxCoordSends == 1

\* self._stick is None: before coordinator.connect() and after
\* coordinator.disconnect() has returned.
StickMissing == nConnects = 0 \/ DisconnectReturned

\* _update_moving_state on the device table devs.
UpdateMovingState(devs, device_code, direction) ==
    IF hex(device_code) \in DOMAIN devs
    THEN [devs EXCEPT ![hex(device_code)].status.moving = direction]
    ELSE devs

\* _send: TRUE when send_command is reached and puts the frame in the queue.
Enqueues == ~StickMissing /\ ReportsConnected /\ connected

\* _send(frame) and the part of a cover command that is common: the stick
\* fields after the call, and devs as the new device table.
CoordSend(frame, devs) ==
    /\ Enqueues => Len(accepted) < MaxCoordSends
    /\ IF Enqueues
         THEN /\ sendQueue' = Append(sendQueue, frame)
              /\ accepted' = Append(accepted, frame)
         ELSE UNCHANGED <<sendQueue, accepted>>   \* logs an error, returns
    /\ devices' = devs
    /\ UNCHANGED <<transport, serialProtocol, connected, initialized, closing,
                   ackEvent, cmdInFlight, protoVars, pcVars, initLog, rxLog,
                   cmdWritten, waitsEnded, lastWait, ackSeen, anyReply, onlyInit1,
                   init1Written, nConnects, nDisconnects>>
    /\ UNCHANGED <<streamVars, codecVars>>

AsyncCoverUp(device_code) ==
    CoordSend(build_cover_command(CoverUp, device_code.raw, SystemCode, None, FALSE, 1), UpdateMovingState(devices, device_code, "up"))

AsyncCoverDown(device_code) ==
    CoordSend(build_cover_command(CoverDown, device_code.raw, SystemCode, None, FALSE, 1), UpdateMovingState(devices, device_code, "down"))

AsyncCoverStop(device_code) ==
    CoordSend(build_cover_command(CoverStop, device_code.raw, SystemCode, None, FALSE, 1), UpdateMovingState(devices, device_code, "stop"))

AsyncCoverPosition(device_code, position) ==
    LET h == hex(device_code)
        known == h \in DOMAIN devices /\ devices[h].status.position /= None
        devs == IF ~known THEN devices
                ELSE IF position > devices[h].status.position[1]
                THEN UpdateMovingState(devices, device_code, "down")
                ELSE IF position < devices[h].status.position[1]
                THEN UpdateMovingState(devices, device_code, "up")
                ELSE devices
    IN  CoordSend(build_cover_command(CoverPosition, device_code.raw, SystemCode, Some(position), FALSE, 1), devs)

\* _handle_status on the device table devs; an exception of the decoder is
\* caught in _on_message and leaves the table as it was.
HandleStatus(devs, frame) ==
    LET device_code == extract_device_code_from_status(Bytes(frame))
        status == parse_status(Bytes(frame))
    IN  IF device_code.raised /= "none" THEN devs
        ELSE IF hex(device_code.value) \notin DOMAIN devs THEN devs
        ELSE IF status.raised /= "none" THEN devs
        ELSE [devs EXCEPT ![hex(device_code.value)].status = status.value,
                          ![hex(device_code.value)].available = TRUE]

\* _on_message: a status frame updates the table, any other frame is logged.
OnMessage(devs, frame) ==
    IF is_status_response(frame) THEN HandleStatus(devs, frame) ELSE devs

\* The table after the callback has been given the dispatched frames of rx.
RECURSIVE Dispatch(_, _)
Dispatch(devs, rx) ==
    IF rx = <<>> THEN devs
    ELSE Dispatch(IF Head(rx).dispatched THEN OnMessage(devs, Head(rx).frame)
                  ELSE devs, Tail(rx))

\* data_received on the coordinator's stick: the message callback is
\* _on_message.
CoordReceived(data) ==
    /\ transport = "open"
    /\ serialProtocol
    /\ LET st == Received(data)
       IN /\ ApplyReceived(st, fed)
          /\ rxLog' = <<>>
          /\ devices' = Dispatch(devices, st.rx)
    /\ UNCHANGED <<streamVars, codecVars>>

\* coordinator.connect() creates the stick; the coordinator of this
\* specification is connected once.
CoordConnect == nConnects = 0 /\ ConnectOpen

\* coordinator.disconnect() disconnects the stick it has.
CoordDisconnect == ~StickMissing /\ DisconnectCall

CoverCommandStep ==
    \E device_code \in CoordDevices :
        \/ AsyncCoverUp(device_code)
        \/ AsyncCoverDown(device_code)
        \/ AsyncCoverStop(device_code)
        \/ \E position \in CoordPositions : AsyncCoverPosition(device_code, position)

NextCoord ==
    \/ CoordConnect
    \/ InitReply
    \/ InitTimeout
    \/ \E data \in FrameChunks : CoordReceived(data)
    \/ \E device_code \in CoordDevices : AsyncCoverUp(device_code)
    \/ \E device_code \in CoordDevices : AsyncCoverDown(device_code)
    \/ \E device_code \in CoordDevices : AsyncCoverStop(device_code)
    \/ \E device_code \in CoordDevices, position \in CoordPositions : AsyncCoverPosition(device_code, position)
    \/ WorkerStart
    \/ WorkerGet
    \/ WorkerAck
    \/ WorkerTimeout
    \/ WorkerCancelled
    \/ CoordDisconnect
    \/ DisconnectFinish

SpecCoord == Init /\ [][NextCoord]_vars

\* C40: a cover command of the coordinator that puts no frame in the stick's
\* queue, because the stick is missing or does not report connected, leaves
\* the state of every device unchanged.
C40_MovingOnlyWhenEnqueued ==
    [][(CoverCommandStep /\ accepted' = accepted) => devices' = devices]_vars

\* A command given to a stick that reports connected is enqueued.
C40_EnqueuedWhenConnected ==
    [][(CoverCommandStep /\ ~StickMissing /\ ReportsConnected) => accepted' /= accepted]_vars

\* The paired cover is shown moving up although the coordinator never had a
\* stick and no frame was ever enqueued.
C40_MovingWithoutStick ==
    /\ nConnects = 0
    /\ accepted = <<>>
    /\ devices[hex([raw |-> DeviceList[1]])].status.moving = "up"

\* The same after a handshake that failed: the stick exists, it does not
\* report connected, and the cover is shown moving down towards a position.
C40_MovingWhenNotConnected ==
    /\ connPc = "failed"
    /\ ~ReportsConnected
    /\ accepted = <<>>
    /\ devices[hex([raw |-> DeviceList[1]])].status.position /= None
    /\ devices[hex([raw |-> DeviceList[1]])].status.moving = "down"

=============================================================================
